---- MODULE Spec2Model ----
(***************************************************************************)
(* A model of the resilience and batch primitives of poe2-trading-mcp:     *)
(*   - CircuitBreaker        (src/src/utils/circuitBreaker.ts)             *)
(*   - RateLimiter           (src/src/utils/rateLimiter.ts)                *)
(*   - WindowedRateLimiter   (src/src/api/poe2OfficialClient.ts)           *)
(*   - Semaphore/BatchManager(src/src/utils/batch-manager.ts)              *)
(*   - PriorityQueue         (src/unnamed/part_014)                        *)
(*   - the handler of poe2official_batch_search (src/unnamed/part_009)     *)
(*   - CacheManager          (src/src/cache/cache_manager.ts)              *)
(*   - RetryHandler          (src/src/utils/retryHandler.ts) on the        *)
(*     request path of POE2ScoutClient (src/src/api/client.ts)             *)
(*   - KeyGenerator          (src/src/utils/key_generation.ts)             *)
(*   - CompressionUtil       (src/src/utils/compression.ts)                *)
(*   - TradeCache            (src/src/utils/trade-cache.ts)                *)
(* Every component has its own variables, its own next-state relation and  *)
(* its own specification; the variables of the other components stay at    *)
(* their initial values.  JavaScript runs one synchronous block at a time, *)
(* so an action is one synchronous block: from a call (or the resumption   *)
(* after an await, or a timer callback) to the next await or return.       *)
(***************************************************************************)
EXTENDS Integers, Sequences, FiniteSets, TLC

Max(a, b) == IF a >= b THEN a ELSE b
Min(a, b) == IF a <= b THEN a ELSE b

\* null of a `number | null` field; Date.now() is never 0, clocks start at 1
NULL == 0

(***************************************************************************)
(* The state                                                               *)
(***************************************************************************)
\* CircuitBreaker
VARIABLES
  now,              \* Date.now() of the breaker's clock
  state,            \* CircuitBreaker.state
  failureCount,     \* CircuitBreaker.failureCount
  successCount,     \* CircuitBreaker.successCount
  totalRequests,    \* CircuitBreaker.totalRequests
  lastFailureTime,  \* CircuitBreaker.lastFailureTime (NULL or a time)
  nextAttemptTime,  \* CircuitBreaker.nextAttemptTime (NULL or a time)
  config,           \* CircuitBreaker.config
  calls,            \* the execute() calls in flight, per caller
  ev,               \* what the last step of the breaker was (history)
  run,              \* failures counted since construction/reset, -1 once
                    \* something other than execute() interfered (history)
  decayed,          \* the monitoring-period clean-up lowered failureCount
                    \* since construction/reset (history)
  abandoned         \* the operations whose timeout fired and which have not
                    \* settled yet

cbVars == <<now, state, failureCount, successCount, totalRequests,
            lastFailureTime, nextAttemptTime, config, calls, ev, run, decayed,
            abandoned>>

\* RateLimiter
VARIABLES
  rlNow,        \* Date.now() of the limiter's clock
  tokens,       \* RateLimiter.state.tokens
  lastRefill,   \* RateLimiter.state.lastRefill
  queue,        \* RateLimiter.state.queue: the pending acquire() calls, by id
  processing,   \* RateLimiter.processing
  timer,        \* due time of the pending setTimeout of processQueue, or NULL
  issued,       \* how many acquire() calls were made; the next one gets id issued + 1
  granted,      \* the acquire() calls resolved so far, in order: [id, at, ahead]
  cleared,      \* the acquire() calls rejected by clear()
  issuedAt      \* per acquire() call: its time, the tokens it found after the
                \* refill, and whether a processing timer was pending (history)

rlVars == <<rlNow, tokens, lastRefill, queue, processing, timer, issued, granted, cleared,
            issuedAt>>

\* WindowedRateLimiter
VARIABLES
  wNow,       \* Date.now() of the limiter's clock
  requests,   \* WindowedRateLimiter.requests: the times recorded
  waiters,    \* per caller: idle, or waiting in acquire() until a wake time
  wGranted,   \* the time of every acquisition granted so far (history)
  wIssued     \* how many acquire() calls were made

wrlVars == <<wNow, requests, waiters, wGranted, wIssued>>

\* Semaphore and BatchManager
VARIABLES
  bmConfig,         \* BatchManager.config (maxConcurrent, retryLimit)
  semaphore,        \* BatchManager.semaphore: [permits, maxPermits, waiting]
  activeRequests,   \* BatchManager.activeRequests: request id -> the item whose
                    \* AbortController is registered under it, or 0
  peakConcurrency,  \* BatchManager.stats.peakConcurrency
  started,          \* per batch: executeBatch() was called
  pc,               \* per item: where its executeRequest() stands
  result,           \* per item: the BatchResult of executeRequest(), or "none"
  attempts,         \* per item: how often the executor was invoked (saturating)
  inFlightAtAbort   \* the items that were executing or waiting for their retry
                    \* when abortAll() was called (history)

bmVars == <<bmConfig, semaphore, activeRequests, peakConcurrency, started, pc,
            result, attempts, inFlightAtAbort>>

\* PriorityQueue
VARIABLES
  pqNow,             \* Date.now() of the queue's clock
  queues,            \* PriorityQueue.queues: per priority, the ids of the items waiting
  deduplicationMap,  \* PriorityQueue.deduplicationMap: hash -> id of an item, or NoItem
  pqStats,           \* PriorityQueue.stats (duplicatesPrevented, totalProcessed)
  pqItems,           \* every QueueItem object created so far; an item's id is its index
  releaseTimers,     \* per item: due time of the setTimeout of its dequeue(), or NULL
  cleanupDue,        \* due time of the next run of the cleanup interval
  pqEv,              \* what the last call of enqueue() or dequeue() did (history)
  dequeued,          \* the items dequeue() has returned (history)
  retried,           \* the items retry() was called with (history)
  pqCalls            \* how many calls were made on the queue

pqVars == <<pqNow, queues, deduplicationMap, pqStats, pqItems, releaseTimers,
            cleanupDue, pqEv, dequeued, retried, pqCalls>>

\* the handler of the poe2official_batch_search tool; its priorityQueue is the
\* PriorityQueue above
VARIABLES
  bsStage,       \* the handler: "idle", "executing" (in `await executeBatch`), "returned"
  bsRequests,    \* batchRequests: the BatchRequest of every search enqueued
  bsSemaphore,   \* the semaphore of batchManager
  bsPc,          \* per batch request: where its executeRequest() stands
  batchCache,    \* the keys batchCache holds a result for
  searchCalls    \* per cache key: how often client.searchTrade was called (history)

bsVars == <<bsStage, bsRequests, bsSemaphore, bsPc, batchCache, searchCalls>>

\* CacheManager with its L1Cache (node-cache) and L2Cache (SQLite)
VARIABLES
  cmNow,        \* Date.now() of the cache's clock
  l1Cache,      \* L1Cache.cache: key -> [value, expires], or NoEntry
  l2Cache,      \* the rows of cache_entries: key -> [value, expires], or NoEntry
  l2Stats,      \* L2Cache.stats (hits, misses)
  metrics,      \* CacheManager.metrics (errorRate)
  pendingGet,   \* the get() suspended in `await l2Cache.get`, or NoCall
  pendingSet,   \* the set() suspended in `await l2Cache.set`, or NoCall
  setLog,       \* per set() made: its key and time; the value written is its index
  cmEv,         \* what the last call completed on the manager did (history)
  cmCalls       \* how many calls were made on the manager

cmVars == <<cmNow, l1Cache, l2Cache, l2Stats, metrics, pendingGet, pendingSet, setLog,
            cmEv, cmCalls>>

\* RetryHandler.execute(fn), fn being the request of POE2ScoutClient
VARIABLES
  rhConfig,      \* RetryHandler.config (retries)
  rhPc,          \* where execute() stands: "idle", "calling" (in `await fn()`),
                 \* "sleeping" (in `await this.sleep(delay)`), "returned", "thrown"
  attempt,       \* the local variable `attempt` of execute()
  lastError,     \* the local variable `lastError` of execute(), or NoError
  thrown,        \* the error execute() rejected with, or NoError
  invocations,   \* how often fn was invoked (history)
  sleeps,        \* how often sleep() was called (history)
  lastFailure,   \* the upstream failure of the last attempt that failed (history)
  allRetryable,  \* the retry condition held for every error so far (history)
  rhEv           \* what the catch block of the last failed attempt did (history)

rhVars == <<rhConfig, rhPc, attempt, lastError, thrown, invocations, sleeps,
            lastFailure, allRetryable, rhEv>>

\* KeyGenerator.generateKey, a static function
VARIABLES
  kgEv           \* the last two calls of generateKey: their arguments and keys

kgVars == <<kgEv>>

\* CompressionUtil
VARIABLES
  compressionThreshold,  \* CompressionUtil.compressionThreshold
  cuEv                   \* the last compress() with the decompress() of what it
                         \* returned: the value, what was stored, what came back

cuVars == <<compressionThreshold, cuEv>>

\* TradeCache
VARIABLES
  tcNow,         \* Date.now() of the trade cache's clock
  tcCache,       \* TradeCache.cache: the entries of the Map in insertion order
  tcCleanupDue,  \* when the setInterval of startCleanupTimer() fires next
  tcCalls        \* how many calls were made on the trade cache

tcVars == <<tcNow, tcCache, tcCleanupDue, tcCalls>>

\* the state of KeyGenerator, CompressionUtil and TradeCache
utilVars == <<kgVars, cuVars, tcVars>>

vars == <<cbVars, rlVars, wrlVars, bmVars, pqVars, bsVars, cmVars, rhVars, utilVars>>

\* the components do not share state: a step of one leaves the others alone
CBFrame == UNCHANGED <<rlVars, wrlVars, bmVars, pqVars, bsVars, cmVars, rhVars,
                       utilVars>>
RLFrame == UNCHANGED <<cbVars, wrlVars, bmVars, pqVars, bsVars, cmVars, rhVars,
                       utilVars>>
WRLFrame == UNCHANGED <<cbVars, rlVars, bmVars, pqVars, bsVars, cmVars, rhVars,
                       utilVars>>
BMFrame == UNCHANGED <<cbVars, rlVars, wrlVars, pqVars, bsVars, cmVars, rhVars,
                       utilVars>>
PQFrame == UNCHANGED <<cbVars, rlVars, wrlVars, bmVars, bsVars, cmVars, rhVars,
                       utilVars>>
\* a step of the handler leaves the timers and the history of its queue alone
BSFrame == UNCHANGED <<cbVars, rlVars, wrlVars, bmVars, pqNow, releaseTimers,
                       cleanupDue, pqEv, dequeued, retried, pqCalls, cmVars, rhVars,
                       utilVars>>
CMFrame == UNCHANGED <<cbVars, rlVars, wrlVars, bmVars, pqVars, bsVars, rhVars,
                       utilVars>>
RHFrame == UNCHANGED <<cbVars, rlVars, wrlVars, bmVars, pqVars, bsVars, cmVars,
                       utilVars>>
KGFrame == UNCHANGED <<cbVars, rlVars, wrlVars, bmVars, pqVars, bsVars, cmVars, rhVars,
                       cuVars, tcVars>>
CUFrame == UNCHANGED <<cbVars, rlVars, wrlVars, bmVars, pqVars, bsVars, cmVars, rhVars,
                       kgVars, tcVars>>
TCFrame == UNCHANGED <<cbVars, rlVars, wrlVars, bmVars, pqVars, bsVars, cmVars, rhVars,
                       kgVars, cuVars>>

(***************************************************************************)
(* CircuitBreaker                                                          *)
(***************************************************************************)
\* bounds of the breaker's model
MaxTime == 5
MaxRequests == 3
NumCallers == 2

Callers == 1..NumCallers

\* the configuration the breaker is constructed with (times in clock ticks)
InitConfig ==
  [failureThreshold |-> 2, timeout |-> 1, resetTimeout |-> 2, monitoringPeriod |-> 2]

\* the values updateConfig() may set; monitoringPeriod 0 is "not configured"
ConfigUpdates ==
  [failureThreshold : {1, 2}, timeout : {1}, resetTimeout : {2}, monitoringPeriod : {0, 2}]

\* a configuration whose call timeout is longer than its reset timeout
SlowCallConfig ==
  [failureThreshold |-> 1, timeout |-> 3, resetTimeout |-> 2, monitoringPeriod |-> 2]

IdleCall == [st |-> "idle", adm |-> "none", deadline |-> NULL]

\* error: the message of the error a failed call rejected with
Event(kind, pre, adm, blocked) ==
  [kind |-> kind, pre |-> pre, adm |-> adm, blocked |-> blocked, error |-> ""]

\* the last step was not a step of an execute() call
NoEvent == Event("none", "none", "none", FALSE)

InitCB ==
  /\ now = 1
  /\ state = "closed"
  /\ failureCount = 0
  /\ successCount = 0
  /\ totalRequests = 0
  /\ lastFailureTime = NULL
  /\ nextAttemptTime = NULL
  /\ config = InitConfig
  /\ calls = [c \in Callers |-> IdleCall]
  /\ ev = NoEvent
  /\ run = 0
  /\ decayed = FALSE
  /\ abandoned = 0

\* a bug: the breaker leaves open as soon as a call arrives, timer or not
checkStateTransitionNoTimer ==
  LET toHalfOpen == state = "open"
      oldFailure == /\ config.monitoringPeriod # 0
                    /\ lastFailureTime # NULL
                    /\ lastFailureTime < now - config.monitoringPeriod
  IN [state |-> IF toHalfOpen THEN "half-open" ELSE state,
      nextAttemptTime |-> IF toHalfOpen THEN NULL ELSE nextAttemptTime,
      failureCount |-> IF oldFailure THEN Max(0, failureCount - 1) ELSE failureCount]

\* checkStateTransition(): the fields it leaves (state, nextAttemptTime, failureCount)
checkStateTransition ==
  LET toHalfOpen == state = "open" /\ nextAttemptTime # NULL /\ now >= nextAttemptTime
      oldFailure == /\ config.monitoringPeriod # 0
                    /\ lastFailureTime # NULL
                    /\ lastFailureTime < now - config.monitoringPeriod
  IN [state |-> IF toHalfOpen THEN "half-open" ELSE state,
      nextAttemptTime |-> IF toHalfOpen THEN NULL ELSE nextAttemptTime,
      failureCount |-> IF oldFailure THEN Max(0, failureCount - 1) ELSE failureCount]

\* a bug: the circuit opens without a time for the next attempt
OpenUntilUnset(t) == NULL

\* openCircuit(): `this.nextAttemptTime = Date.now() + this.config.resetTimeout`
OpenUntil(t) == t + config.resetTimeout

\* a bug: failures never open the circuit
ShouldOpenNever(count) == FALSE

\* a bug: the circuit opens only once the threshold is exceeded
ShouldOpenExceeds(count) == count > config.failureThreshold

\* onFailure(): the test that opens the circuit
ShouldOpen(count) == count >= config.failureThreshold

\* a bug: reset() forgets the failure count
ResetFailureCountKept(count) == count

\* reset(): the failure count it leaves
ResetFailureCount(count) == 0

\* execute(), up to the await: count the request, let the state move, then
\* reject at once (open) or invoke the operation under its timeout
Execute(c) ==
  /\ calls[c].st = "idle"
  /\ totalRequests < MaxRequests
  /\ LET t == checkStateTransition
         blocked == state = "open" /\ nextAttemptTime # NULL /\ now < nextAttemptTime
     IN /\ totalRequests' = totalRequests + 1
        /\ state' = t.state
        /\ nextAttemptTime' = t.nextAttemptTime
        /\ failureCount' = t.failureCount
        /\ decayed' = (decayed \/ t.failureCount < failureCount)
        /\ IF t.state = "open"
             THEN /\ calls' = calls
                  /\ ev' = Event("reject", state, "none", blocked)
             ELSE /\ calls' = [calls EXCEPT ![c] =
                                 [st |-> "running", adm |-> t.state,
                                  deadline |-> now + config.timeout]]
                  /\ ev' = Event("admit", state, t.state, blocked)
  /\ UNCHANGED <<now, successCount, lastFailureTime, config, run, abandoned>>
  /\ CBFrame

\* onSuccess(), after the operation resolved within the timeout
OnSuccess(c) ==
  /\ successCount' = successCount + 1
  /\ IF state = "half-open"
       THEN /\ state' = "closed"
            /\ failureCount' = ResetFailureCount(failureCount)
            /\ nextAttemptTime' = NULL
            /\ run' = 0
            /\ decayed' = FALSE
       ELSE /\ UNCHANGED <<state, failureCount, nextAttemptTime, decayed>>
            /\ run' = IF run = 0 THEN 0 ELSE -1
  /\ calls' = [calls EXCEPT ![c] = IdleCall]
  /\ ev' = Event("success", state, calls[c].adm, FALSE)
  /\ UNCHANGED <<now, totalRequests, lastFailureTime, config>>

\* a bug: a failure is counted twice
FailureCountedTwice(count) == count + 2

\* onFailure(): `this.failureCount++`
FailureCounted(count) == count + 1

\* onFailure(), after the operation rejected or the timeout fired
OnFailure(c, error) ==
  /\ failureCount' = FailureCounted(failureCount)
  /\ lastFailureTime' = now
  /\ IF ShouldOpen(FailureCounted(failureCount))
       THEN /\ state' = "open"
            /\ nextAttemptTime' = OpenUntil(now)
       ELSE UNCHANGED <<state, nextAttemptTime>>
  /\ run' = IF run >= 0 THEN run + 1 ELSE run
  /\ calls' = [calls EXCEPT ![c] = IdleCall]
  /\ ev' = [Event("failure", state, calls[c].adm, FALSE) EXCEPT !.error = error]
  /\ UNCHANGED <<now, successCount, totalRequests, config, decayed>>

\* the operation resolves before the timeout timer fires
OpResolves(c) ==
  /\ calls[c].st = "running"
  /\ now <= calls[c].deadline
  /\ OnSuccess(c)
  /\ UNCHANGED abandoned
  /\ CBFrame

\* the operation rejects before the timeout timer fires
OpRejects(c) ==
  /\ calls[c].st = "running"
  /\ now <= calls[c].deadline
  /\ OnFailure(c, "operation error")
  /\ UNCHANGED abandoned
  /\ CBFrame

\* the timeout timer of executeWithTimeout fires first: the promise is
\* rejected with the timeout error, the operation goes on unobserved
OpTimesOut(c) ==
  /\ calls[c].st = "running"
  /\ now >= calls[c].deadline
  /\ OnFailure(c, "Operation timeout")
  /\ abandoned' = abandoned + 1
  /\ CBFrame

\* an operation settles after its timeout fired: clearTimeout of the timer
\* that has fired, and resolve or reject of the promise that is rejected
\* already; execute() has left its catch block long ago
OpSettlesLate ==
  /\ abandoned > 0
  /\ abandoned' = abandoned - 1
  /\ ev' = Event("settledLate", state, "none", FALSE)
  /\ UNCHANGED <<now, state, failureCount, successCount, totalRequests,
                 lastFailureTime, nextAttemptTime, config, calls, run, decayed>>
  /\ CBFrame

\* forceOpen(): openCircuit()
ForceOpen ==
  /\ state' = "open"
  /\ nextAttemptTime' = OpenUntil(now)
  /\ run' = -1
  /\ ev' = NoEvent
  /\ UNCHANGED <<now, failureCount, successCount, totalRequests, lastFailureTime,
                 config, calls, decayed, abandoned>>
  /\ CBFrame

\* manualReset(): reset() and the statistics cleared
ManualReset ==
  /\ state' = "closed"
  /\ failureCount' = ResetFailureCount(failureCount)
  /\ nextAttemptTime' = NULL
  /\ successCount' = 0
  /\ totalRequests' = 0
  /\ lastFailureTime' = NULL
  /\ run' = 0
  /\ decayed' = FALSE
  /\ ev' = NoEvent
  /\ UNCHANGED <<now, config, calls, abandoned>>
  /\ CBFrame

\* updateConfig(updates)
UpdateConfig ==
  /\ \E u \in ConfigUpdates : config' = u
  /\ run' = -1
  /\ ev' = NoEvent
  /\ UNCHANGED <<now, state, failureCount, successCount, totalRequests,
                 lastFailureTime, nextAttemptTime, calls, decayed, abandoned>>
  /\ CBFrame

\* the clock advances; a timeout timer that is due fires first
TickCB ==
  /\ now < MaxTime
  /\ \A c \in Callers : calls[c].st = "running" => now < calls[c].deadline
  /\ now' = now + 1
  /\ ev' = NoEvent
  /\ UNCHANGED <<state, failureCount, successCount, totalRequests, lastFailureTime,
                 nextAttemptTime, config, calls, run, decayed, abandoned>>
  /\ CBFrame

NextCB ==
  \/ \E c \in Callers : Execute(c)
  \/ \E c \in Callers : OpResolves(c)
  \/ \E c \in Callers : OpRejects(c)
  \/ \E c \in Callers : OpTimesOut(c)
  \/ OpSettlesLate
  \/ ForceOpen
  \/ ManualReset
  \/ UpdateConfig
  \/ TickCB

\* execute() calls only: no forceOpen(), manualReset() or updateConfig()
NextCBCalls ==
  \/ \E c \in Callers : Execute(c)
  \/ \E c \in Callers : OpResolves(c)
  \/ \E c \in Callers : OpRejects(c)
  \/ \E c \in Callers : OpTimesOut(c)
  \/ OpSettlesLate
  \/ TickCB

(***************************************************************************)
(* CircuitBreaker: the claims                                              *)
(***************************************************************************)

\* C1 (as stated): from a freshly constructed or reset breaker, the state is
\* open right after the failureThreshold-th consecutive failure, and closed
\* after any smaller number of failures.
C1_ThresholdFailuresOpen ==
  /\ (run >= 0 /\ run < config.failureThreshold) => state = "closed"
  /\ (ev.kind = "failure" /\ run = config.failureThreshold) => state = "open"

\* C1 (amended): the same, provided the monitoring-period clean-up of
\* checkStateTransition did not lower the failure count during those failures.
C1_ThresholdFailuresOpenNoDecay ==
  /\ (run >= 0 /\ run < config.failureThreshold) => state = "closed"
  /\ (ev.kind = "failure" /\ run = config.failureThreshold /\ ~decayed)
       => state = "open"

C1_Witness ==
  /\ ev.kind = "failure"
  /\ run = config.failureThreshold
  /\ run > 1
  /\ ~decayed
  /\ state = "open"

\* C2: an execute() issued while the breaker is open and its reset timer has not
\* run out is rejected at once and the operation is not invoked (no call starts).
C2_OpenRejects ==
  ev.blocked => (ev.kind = "reject" /\ state = "open")

C2_Witness ==
  /\ ev.blocked
  /\ ev.kind = "reject"
  /\ \E c \in Callers : calls[c].st = "idle"

\* C3 (as stated): at most one call admitted in half-open is in flight: no other
\* execute() is passed to the operation before the trial call has settled.
C3_OneTrialCall ==
  Cardinality({c \in Callers : calls[c].st = "running" /\ calls[c].adm = "half-open"}) <= 1

\* C4 (as stated): when the breaker is half-open and the admitted call fails,
\* the breaker is open again and the reset timer restarts at that failure.
C4_HalfOpenFailureReopens ==
  (ev.kind = "failure" /\ ev.pre = "half-open" /\ ev.adm = "half-open")
    => (state = "open" /\ nextAttemptTime = now + config.resetTimeout)

C35_SuccessKeepsFailureCount ==
  [][\A c \in Callers :
       /\ (OpResolves(c) /\ state = "closed") =>
            (failureCount' = failureCount /\ state' = "closed")
       /\ ((OpRejects(c) \/ OpTimesOut(c)) /\ state = "closed") =>
            /\ failureCount' = failureCount + 1
            /\ state' = "open" <=> failureCount' >= config.failureThreshold]_vars

\* failure, success, failure: the second failure opened the breaker
C35_Witness ==
  /\ ev.kind = "failure" /\ ev.pre = "closed" /\ state = "open"
  /\ totalRequests = 3 /\ successCount = 1
  /\ failureCount = 2 /\ config.failureThreshold = 2
  /\ run = -1 /\ ~decayed

\* C36 (as stated): a call admitted while the breaker was closed that succeeds
\* when the breaker is open or half-open leaves state and failure count as
\* they are.
C36_LateSuccessChangesNothing ==
  [][\A c \in Callers :
       (OpResolves(c) /\ calls[c].adm = "closed" /\ state \in {"open", "half-open"}) =>
         (state' = state /\ failureCount' = failureCount)]_vars

\* C37: nextAttemptTime is non-null exactly when the state is open.
C37_NextAttemptIffOpen ==
  state = "open" <=> nextAttemptTime # NULL

\* the breaker has been open and is half-open, closed by reset, or open again
C37_Witness ==
  /\ state = "half-open" /\ nextAttemptTime = NULL
  /\ lastFailureTime # NULL
  /\ \E c \in Callers : calls[c].st = "running" /\ calls[c].adm = "half-open"

\* C26: when the timeout fires before the operation settles, execute()
\* rejects with the timeout error and the breaker counts exactly one failure;
\* when the abandoned operation settles later, nothing of the breaker changes.
C26_TimeoutIsOneFailure ==
  [][/\ \A c \in Callers :
          OpTimesOut(c) =>
            /\ failureCount' = failureCount + 1
            /\ lastFailureTime' = now
            /\ successCount' = successCount /\ totalRequests' = totalRequests
            /\ calls'[c] = IdleCall
            /\ ev'.kind = "failure" /\ ev'.error = "Operation timeout"
     /\ OpSettlesLate =>
          UNCHANGED <<state, failureCount, successCount, totalRequests,
                      lastFailureTime, nextAttemptTime, config, calls, run, decayed>>]_vars

\* an operation has settled after its timeout, which was the only failure
C26_Witness ==
  /\ ev.kind = "settledLate"
  /\ failureCount = 1
  /\ lastFailureTime # NULL
  /\ successCount = 0
  /\ totalRequests = 1

(***************************************************************************)
(* RateLimiter (token bucket)                                              *)
(* One clock tick is 1000 / (requestsPerSecond * TicksPerToken) ms, so     *)
(* that floor(timePassed * requestsPerSecond) = timePassed \div            *)
(* TicksPerToken and the delay 1000 / requestsPerSecond is TicksPerToken.  *)
(***************************************************************************)
\* bounds of the limiter's model
RLMaxTime == 6
MaxAcquires == 5

\* the constructor's arguments: the rate (one token per TicksPerToken ticks)
\* and the burst capacity
TicksPerToken == 2
burstSize == 2

InitRL ==
  /\ rlNow = 1
  /\ tokens = burstSize
  /\ lastRefill = 1
  /\ queue = <<>>
  /\ processing = FALSE
  /\ timer = NULL
  /\ issued = 0
  /\ granted = <<>>
  /\ cleared = {}
  /\ issuedAt = <<>>

\* a bug: the refill is not capped at the burst size
RefilledTokensUncapped(tk, tokensToAdd) == tk + tokensToAdd

\* refillTokens(): Math.min(burstSize, tokens + tokensToAdd)
RefilledTokens(tk, tokensToAdd) == Min(burstSize, tk + tokensToAdd)

\* refillTokens(): the tokens and lastRefill it leaves
refillTokens ==
  LET timePassed == rlNow - lastRefill
      tokensToAdd == timePassed \div TicksPerToken
  IN IF tokensToAdd > 0
       THEN [tokens |-> RefilledTokens(tokens, tokensToAdd), lastRefill |-> rlNow]
       ELSE [tokens |-> tokens, lastRefill |-> lastRefill]

\* a bug: the requests are taken from the back of the queue (pop)
ShiftedLast(q, n) ==
  [taken |-> [k \in 1..n |-> q[Len(q) + 1 - k]], rest |-> SubSeq(q, 1, Len(q) - n)]

\* n times queue.shift(): the requests taken, in order, and the queue left
Shifted(q, n) ==
  [taken |-> SubSeq(q, 1, n), rest |-> SubSeq(q, n + 1, Len(q))]

\* a bug: no timer is set for the requests left in the queue
NeedsTimerNever(q) == FALSE

\* processQueue(): `if (this.state.queue.length > 0)` schedule the next run
NeedsTimer(q) == Len(q) > 0

\* a bug: the next run is scheduled without a delay
NextProcessingAtOnce(t) == t

\* processQueue(): the next run is due after 1000 / requestsPerSecond ms
NextProcessing(t) == t + TicksPerToken

\* processQueue() called with processing = false, on queue q
ProcessQueue(q) ==
  LET r == refillTokens
      n == IF r.tokens > 0 THEN Min(r.tokens, Len(q)) ELSE 0
      s == Shifted(q, n)
  IN /\ tokens' = r.tokens - n
     /\ lastRefill' = r.lastRefill
     /\ queue' = s.rest
     /\ granted' = granted \o
          [k \in 1..n |-> [id |-> s.taken[k], at |-> rlNow,
                           ahead |-> {i \in {q[j] : j \in 1..Len(q)} :
                                        /\ i < s.taken[k]
                                        /\ i \notin {s.taken[j] : j \in 1..(k - 1)}}]]
     /\ IF NeedsTimer(s.rest)
          THEN /\ processing' = TRUE
               /\ timer' = NextProcessing(rlNow)
          ELSE /\ processing' = FALSE
               /\ timer' = NULL

\* acquire(): push the request, then processQueue()
Acquire ==
  /\ issued < MaxAcquires
  /\ issued' = issued + 1
  /\ issuedAt' = Append(issuedAt, [at |-> rlNow, avail |-> refillTokens.tokens,
                                   idle |-> ~processing])
  /\ IF processing
       THEN /\ queue' = Append(queue, issued + 1)
            /\ UNCHANGED <<tokens, lastRefill, granted, processing, timer>>
       ELSE ProcessQueue(Append(queue, issued + 1))
  /\ UNCHANGED <<rlNow, cleared>>
  /\ RLFrame

\* the setTimeout callback of processQueue: processing = false; processQueue()
TimerFires ==
  /\ timer # NULL
  /\ rlNow >= timer
  /\ ProcessQueue(queue)
  /\ UNCHANGED <<rlNow, issued, cleared, issuedAt>>
  /\ RLFrame

\* getStatus(): refillTokens() and a snapshot
GetStatus ==
  /\ tokens' = refillTokens.tokens
  /\ lastRefill' = refillTokens.lastRefill
  /\ UNCHANGED <<rlNow, queue, processing, timer, issued, granted, cleared, issuedAt>>
  /\ RLFrame

\* clear(): every pending request is rejected
Clear ==
  /\ cleared' = cleared \cup {queue[j] : j \in 1..Len(queue)}
  /\ queue' = <<>>
  /\ UNCHANGED <<rlNow, tokens, lastRefill, processing, timer, issued, granted, issuedAt>>
  /\ RLFrame

\* the clock advances; a timer may fire late
TickRL ==
  /\ rlNow < RLMaxTime
  /\ rlNow' = rlNow + 1
  /\ UNCHANGED <<tokens, lastRefill, queue, processing, timer, issued, granted, cleared, issuedAt>>
  /\ RLFrame

NextRL ==
  \/ Acquire
  \/ TimerFires
  \/ GetStatus
  \/ Clear
  \/ TickRL

(***************************************************************************)
(* RateLimiter: the claims                                                 *)
(***************************************************************************)

\* the acquire() calls granted at a time in [t1, t2]
GrantedIn(t1, t2) ==
  Cardinality({k \in 1..Len(granted) : t1 <= granted[k].at /\ granted[k].at <= t2})

\* ceil(rate * W) for a window of W ticks
CeilRate(W) == (W + TicksPerToken - 1) \div TicksPerToken

\* C6: in every window [t1, t2] the number of acquire() calls granted is at
\* most ceil(rate * (t2 - t1)) + burst.
C6_RateBound ==
  \A t1 \in 1..RLMaxTime : \A t2 \in t1..RLMaxTime :
    GrantedIn(t1, t2) <= CeilRate(t2 - t1) + burstSize

\* the bound is met with equality over a window that starts after an idle time
\* in which the full bucket could have refilled once more
C6_Witness ==
  \E t1 \in 1..RLMaxTime : \E t2 \in (t1 + 1)..RLMaxTime :
    /\ GrantedIn(t1, t2) = CeilRate(t2 - t1) + burstSize
    /\ GrantedIn(1, t1 - 1) = 0
    /\ t1 > TicksPerToken

\* C8: an acquire() is never granted while an earlier acquire() is still
\* pending: the grants follow the order of the calls.
C8_FifoGrants ==
  /\ \A k \in 1..Len(granted) : granted[k].ahead = {}
  /\ \A k \in 1..Len(granted) : \A j \in 1..Len(queue) : granted[k].id < queue[j]

\* a call that arrived while the processing timer was pending, behind a waiting
\* call, and was granted after it
C8_Witness ==
  \E k \in 2..Len(granted) :
    /\ granted[k].at > granted[k - 1].at
    /\ granted[k - 1].at > 1
    /\ granted[k].id = granted[k - 1].id + 1
    /\ Len(queue) > 0

\* the tokens a call made at time t finds after its refillTokens(), when no
\* call is made on the limiter before t
TokensAt(t) ==
  LET tokensToAdd == (t - lastRefill) \div TicksPerToken
  IN IF tokensToAdd > 0 THEN RefilledTokens(tokens, tokensToAdd) ELSE tokens

\* C30 (as stated): getStatus() is a snapshot without side effects: it leaves
\* the state of the limiter as it was, and the tokens a later acquire() finds,
\* hence the time it is granted at, are those it would have found without it.
C30_SnapshotNoSideEffect ==
  [][GetStatus =>
       /\ UNCHANGED <<tokens, lastRefill>>
       /\ \A t \in rlNow..RLMaxTime : TokensAt(t)' = TokensAt(t)]_vars

\* C31: when burstSize acquire() calls are made at one instant on a limiter
\* with a full bucket and no timer pending, all of them are granted at that
\* instant; a further acquire() made at the same instant waits for the timer
\* set 1 / rate later, and is not granted before that.
C31_BurstThenWait ==
  \A k \in 1..Len(issuedAt) :
    LET T == issuedAt[k].at
        last == k + burstSize
        GrantOf(id) == {j \in 1..Len(granted) : granted[j].id = id}
    IN (/\ issuedAt[k].avail = burstSize /\ issuedAt[k].idle
        /\ last - 1 <= Len(issuedAt)
        /\ \A i \in k..(last - 1) : issuedAt[i].at = T)
       => /\ \A i \in k..(last - 1) : \E j \in GrantOf(i) : granted[j].at = T
          /\ (last <= Len(issuedAt) /\ issuedAt[last].at = T) =>
               /\ \A j \in GrantOf(last) : granted[j].at >= T + TicksPerToken
               /\ (\E j \in 1..Len(queue) : queue[j] = last) =>
                    (processing /\ timer = T + TicksPerToken)

\* the burst was granted at once and the call after it one refill time later
C31_Witness ==
  /\ Len(issuedAt) > burstSize
  /\ \A i \in 1..(burstSize + 1) : issuedAt[i].at = 1
  /\ \E j \in 1..Len(granted) :
       granted[j].id = burstSize + 1 /\ granted[j].at = 1 + TicksPerToken

\* C38: while acquire() calls are queued a processing timer is pending, also
\* for a call made while `processing` is set, and every run of the timer
\* grants the call at the head of the queue: no queued call is left unserved.
C38_QueuedIsScheduled ==
  /\ [](Len(queue) > 0 => (processing /\ timer # NULL))
  /\ [][(TimerFires /\ Len(queue) > 0) =>
          /\ Len(granted') > Len(granted)
          /\ granted'[Len(granted) + 1].id = queue[1]]_vars

\* a call made while the timer was pending waits behind an earlier call
C38_Witness ==
  /\ Len(queue) >= 2
  /\ processing /\ timer # NULL
  /\ \E i \in 1..Len(issuedAt) :
       ~issuedAt[i].idle /\ i = queue[Len(queue)]

(***************************************************************************)
(* WindowedRateLimiter                                                     *)
(***************************************************************************)
\* bounds of the limiter's model
WMaxTime == 7
MaxWAcquires == 6
NumWCallers == 3

WCallers == 1..NumWCallers

\* the constructor's arguments (the window in clock ticks)
limit == 2
windowMs == 3

InitWRL ==
  /\ wNow = 1
  /\ requests = <<>>
  /\ waiters = [c \in WCallers |-> [st |-> "idle", wake |-> NULL]]
  /\ wGranted = <<>>
  /\ wIssued = 0

\* requests.filter(time => now - time < windowMs)
FilterRequests(reqs) ==
  LET InWindow(time) == wNow - time < windowMs
  IN SelectSeq(reqs, InWindow)

\* a bug: one request too many is let through
AtLimitOffByOne(reqs) == Len(reqs) > limit

\* the test `this.requests.length >= this.limit`
AtLimit(reqs) == Len(reqs) >= limit

\* the body of acquire(), run at the call and again after every wait
AcquireBody(c) ==
  LET reqs == FilterRequests(requests)
      mustWait == /\ AtLimit(reqs)
                  /\ Len(reqs) > 0
                  /\ (reqs[1] + windowMs) - wNow > 0
  IN IF mustWait
       THEN /\ requests' = reqs
            /\ waiters' = [waiters EXCEPT ![c] =
                             [st |-> "waiting", wake |-> reqs[1] + windowMs]]
            /\ UNCHANGED wGranted
       ELSE /\ requests' = Append(reqs, wNow)
            /\ waiters' = [waiters EXCEPT ![c] = [st |-> "idle", wake |-> NULL]]
            /\ wGranted' = Append(wGranted, wNow)

\* acquire() is called
AcquireW(c) ==
  /\ waiters[c].st = "idle"
  /\ wIssued < MaxWAcquires
  /\ wIssued' = wIssued + 1
  /\ AcquireBody(c)
  /\ UNCHANGED wNow
  /\ WRLFrame

\* the wait of a caller ends: `return this.acquire()`
WakeW(c) ==
  /\ waiters[c].st = "waiting"
  /\ wNow >= waiters[c].wake
  /\ AcquireBody(c)
  /\ UNCHANGED <<wNow, wIssued>>
  /\ WRLFrame

\* the clock advances; a waiter may wake late
TickW ==
  /\ wNow < WMaxTime
  /\ wNow' = wNow + 1
  /\ UNCHANGED <<requests, waiters, wGranted, wIssued>>
  /\ WRLFrame

NextWRL ==
  \/ \E c \in WCallers : AcquireW(c)
  \/ \E c \in WCallers : WakeW(c)
  \/ TickW

(***************************************************************************)
(* WindowedRateLimiter: the claims                                         *)
(***************************************************************************)

\* C7: at most `limit` acquisitions are granted in any window of length
\* windowMs, that is at the times t with e - windowMs < t <= e, for every e.
C7_WindowBound ==
  \A e \in 1..WMaxTime :
    Cardinality({k \in 1..Len(wGranted) : e - windowMs < wGranted[k] /\ wGranted[k] <= e})
      <= limit

\* a window is full, two callers that waited together have woken, one of them
\* was granted and the other waits again
C7_Witness ==
  /\ Len(wGranted) > limit
  /\ wGranted[Len(wGranted)] = wNow
  /\ \E c \in WCallers : waiters[c].st = "waiting" /\ waiters[c].wake > wNow
  /\ Cardinality({k \in 1..Len(wGranted) : wNow - windowMs < wGranted[k]}) = limit


(***************************************************************************)
(* Semaphore and BatchManager                                              *)
(* An item is one BatchRequest handed to executeBatch(); executeRequest()  *)
(* of an item is cut at its awaits:                                        *)
(*   new       executeBatch() was not called for it yet                    *)
(*   waiting   in `await this.semaphore.acquire()`, queued in a semaphore  *)
(*   acquired  it has a permit; the code after the await has not run yet   *)
(*   running   in `await this.executeWithTimeout(...)`                     *)
(*   aborted   its AbortController rejected the attempt; the catch block   *)
(*             has not run yet                                             *)
(*   delaying  in `await this.delay(this.config.retryDelay)`               *)
(*   done      executeRequest() returned its BatchResult                   *)
(***************************************************************************)
\* bound of the model: attempts are counted up to this number
MaxAttemptsTracked == 3

Items == 1..3
Batches == 1..2

\* the requests of the two executeBatch() calls, in the order given
BatchRequests == << <<1, 2>>, <<3>> >>

\* BatchRequest.id and BatchRequest.priority of every item
RequestId == <<1, 2, 1>>
Priority == <<2, 1, 1>>
RequestIds == {RequestId[i] : i \in Items}

\* the configuration the manager is constructed with
InitBMConfig == [maxConcurrent |-> 1, retryLimit |-> 3]

\* the values updateConfig({maxConcurrent}) may set
MaxConcurrentUpdates == {1, 2}

\* new Semaphore(permits)
NewSemaphore(n) == [permits |-> n, maxPermits |-> n, waiting |-> <<>>]

InitBM ==
  /\ bmConfig = InitBMConfig
  /\ semaphore = NewSemaphore(InitBMConfig.maxConcurrent)
  /\ activeRequests = [r \in RequestIds |-> 0]
  /\ peakConcurrency = 0
  /\ started = [b \in Batches |-> FALSE]
  /\ pc = [i \in Items |-> "new"]
  /\ result = [i \in Items |-> "none"]
  /\ attempts = [i \in Items |-> 0]
  /\ inFlightAtAbort = {}

\* [...requests].sort((a, b) => (a.priority ?? 999) - (b.priority ?? 999)): stable
RECURSIVE SortByPriority(_)
SortByPriority(seq) ==
  IF seq = <<>> THEN <<>>
  ELSE LET least == CHOOSE p \in {Priority[seq[k]] : k \in 1..Len(seq)} :
                      \A k \in 1..Len(seq) : p <= Priority[seq[k]]
           IsLeast(i) == Priority[i] = least
           NotLeast(i) == Priority[i] # least
       IN SelectSeq(seq, IsLeast) \o SortByPriority(SelectSeq(seq, NotLeast))

\* Semaphore.acquire() by item i on semaphore s: the semaphore left, and
\* whether the permit was had at once
SemAcquire(s, i) ==
  IF s.permits > 0
    THEN [sem |-> [s EXCEPT !.permits = @ - 1], got |-> TRUE]
    ELSE [sem |-> [s EXCEPT !.waiting = Append(@, i)], got |-> FALSE]

\* a bug: release() returns the permit and resolves no waiting acquire()
SemReleaseWakesNobody(s) == [sem |-> [s EXCEPT !.permits = @ + 1], woken |-> 0]

\* Semaphore.release() on semaphore s: the semaphore left, and the waiter
\* whose acquire() it resolved (0: none)
SemRelease(s) ==
  IF Len(s.waiting) > 0 /\ s.permits + 1 > 0
    THEN [sem |-> [s EXCEPT !.waiting = Tail(@)], woken |-> Head(s.waiting)]
    ELSE [sem |-> [s EXCEPT !.permits = @ + 1], woken |-> 0]

\* Semaphore.getCurrentUsage()
CurrentUsage(s) == s.maxPermits - s.permits

\* the calls executeRequest() of a whole batch, each up to its first await:
\* the items acquire in turn
RECURSIVE AcquireAll(_, _, _)
AcquireAll(seq, s, pcs) ==
  IF seq = <<>> THEN [sem |-> s, pc |-> pcs]
  ELSE LET a == SemAcquire(s, Head(seq))
       IN AcquireAll(Tail(seq), a.sem,
                     [pcs EXCEPT ![Head(seq)] = IF a.got THEN "acquired" ELSE "waiting"])

\* executeBatch(requests, executor), up to the await of Promise.all
ExecuteBatch(b) ==
  /\ ~started[b]
  /\ started' = [started EXCEPT ![b] = TRUE]
  /\ LET r == AcquireAll(SortByPriority(BatchRequests[b]), semaphore, pc)
     IN /\ semaphore' = r.sem
        /\ pc' = r.pc
  /\ UNCHANGED <<bmConfig, activeRequests, peakConcurrency, result, attempts, inFlightAtAbort>>
  /\ BMFrame

\* executeRequest() after `await this.semaphore.acquire()`: the peak is
\* tracked, the AbortController registered and the executor invoked
AfterAcquire(i) ==
  /\ pc[i] = "acquired"
  /\ peakConcurrency' = Max(peakConcurrency, CurrentUsage(semaphore))
  /\ activeRequests' = [activeRequests EXCEPT ![RequestId[i]] = i]
  /\ attempts' = [attempts EXCEPT ![i] = Min(@ + 1, MaxAttemptsTracked)]
  /\ pc' = [pc EXCEPT ![i] = "running"]
  /\ UNCHANGED <<bmConfig, semaphore, started, result, inFlightAtAbort>>
  /\ BMFrame

\* the finally block of executeRequest() of item i, after which it returns res:
\* activeRequests.delete(request.id); this.semaphore.release()
Finish(i, res) ==
  LET r == SemRelease(semaphore)
  IN /\ activeRequests' = [activeRequests EXCEPT ![RequestId[i]] = 0]
     /\ semaphore' = r.sem
     /\ pc' = [j \in Items |-> IF j = i THEN "done"
                               ELSE IF j = r.woken THEN "acquired" ELSE pc[j]]
     /\ result' = [result EXCEPT ![i] = res]

\* the executor resolves before the timeout
ExecutorResolves(i) ==
  /\ pc[i] = "running"
  /\ Finish(i, "result")
  /\ UNCHANGED <<bmConfig, peakConcurrency, started, attempts, inFlightAtAbort>>
  /\ BMFrame

\* a bug: every error is retried
shouldRetryAlways(message) == TRUE

\* shouldRetry(error), by the error's message
shouldRetry(message) ==
  IF message = "Request timeout" \/ message = "Request aborted"
    THEN FALSE
    ELSE message \in {"network", "ECONNRESET"}

\* the messages an executor's error is drawn from
ExecutorErrors == {"network", "ECONNRESET", "bad request"}

\* the catch block of executeRequest() for an error with this message: the
\* item waits for its retry, or returns the error as its result
Catch(i, message) ==
  IF shouldRetry(message)
    THEN /\ pc' = [pc EXCEPT ![i] = "delaying"]
         /\ UNCHANGED <<semaphore, activeRequests, result>>
    ELSE Finish(i, message)

\* the executor rejects before the timeout
ExecutorRejects(i) ==
  /\ pc[i] = "running"
  /\ \E message \in ExecutorErrors : Catch(i, message)
  /\ UNCHANGED <<bmConfig, peakConcurrency, started, attempts, inFlightAtAbort>>
  /\ BMFrame

\* the timer of executeWithTimeout fires before the executor settles
TimesOut(i) ==
  /\ pc[i] = "running"
  /\ Catch(i, "Request timeout")
  /\ UNCHANGED <<bmConfig, peakConcurrency, started, attempts, inFlightAtAbort>>
  /\ BMFrame

\* the catch block runs for an attempt rejected by its AbortController
AbortedFinishes(i) ==
  /\ pc[i] = "aborted"
  /\ Catch(i, "Request aborted")
  /\ UNCHANGED <<bmConfig, peakConcurrency, started, attempts, inFlightAtAbort>>
  /\ BMFrame

\* after `await this.delay(retryDelay)`: `return this.executeRequest(...)` runs
\* the retry up to its acquire(), then the finally block of this attempt runs
AfterDelay(i) ==
  /\ pc[i] = "delaying"
  /\ LET a == SemAcquire(semaphore, i)
         r == SemRelease(a.sem)
     IN /\ semaphore' = r.sem
        /\ pc' = [j \in Items |->
                    IF j = r.woken THEN "acquired"
                    ELSE IF j = i THEN (IF a.got THEN "acquired" ELSE "waiting")
                    ELSE pc[j]]
  /\ activeRequests' = [activeRequests EXCEPT ![RequestId[i]] = 0]
  /\ UNCHANGED <<bmConfig, peakConcurrency, started, result, attempts, inFlightAtAbort>>
  /\ BMFrame

\* abortAll(): every registered controller aborts, which rejects the attempt
\* it belongs to if that attempt has not settled; the map is cleared
AbortControllers ==
  /\ pc' = [j \in Items |->
              IF pc[j] = "running" /\ activeRequests[RequestId[j]] = j
                THEN "aborted" ELSE pc[j]]
  /\ activeRequests' = [r \in RequestIds |-> 0]
  /\ UNCHANGED <<bmConfig, semaphore, peakConcurrency, started, result, attempts>>

\* abortAll()
AbortAll ==
  /\ AbortControllers
  /\ UNCHANGED inFlightAtAbort
  /\ BMFrame

\* abortAll(), the items in flight at the call being recorded
AbortAllObserved ==
  /\ AbortControllers
  /\ inFlightAtAbort' =
       inFlightAtAbort \cup {j \in Items : pc[j] \in {"running", "aborted", "delaying"}}
  /\ BMFrame

\* updateConfig({maxConcurrent: n}): the semaphore is replaced by a new one
UpdateConfigBM ==
  /\ \E n \in MaxConcurrentUpdates :
       /\ bmConfig' = [bmConfig EXCEPT !.maxConcurrent = n]
       /\ semaphore' = NewSemaphore(n)
  /\ UNCHANGED <<activeRequests, peakConcurrency, started, pc, result, attempts, inFlightAtAbort>>
  /\ BMFrame

\* resetStats()
ResetStats ==
  /\ peakConcurrency' = 0
  /\ UNCHANGED <<bmConfig, semaphore, activeRequests, started, pc, result, attempts, inFlightAtAbort>>
  /\ BMFrame

\* the steps the runtime takes for item i once they are due
ItemStep(i) ==
  \/ AfterAcquire(i)
  \/ ExecutorResolves(i)
  \/ ExecutorRejects(i)
  \/ TimesOut(i)
  \/ AbortedFinishes(i)
  \/ AfterDelay(i)

\* executeBatch() calls only: no abortAll(), updateConfig() or resetStats()
NextBMBatch ==
  \/ \E b \in Batches : ExecuteBatch(b)
  \/ \E i \in Items : AfterAcquire(i)
  \/ \E i \in Items : ExecutorResolves(i)
  \/ \E i \in Items : ExecutorRejects(i)
  \/ \E i \in Items : TimesOut(i)
  \/ \E i \in Items : AfterDelay(i)

\* executeBatch() and abortAll() calls only, the abortAll() calls observed
NextBMAbort ==
  \/ \E b \in Batches : ExecuteBatch(b)
  \/ \E i \in Items : AfterAcquire(i)
  \/ \E i \in Items : ExecutorResolves(i)
  \/ \E i \in Items : ExecutorRejects(i)
  \/ \E i \in Items : TimesOut(i)
  \/ \E i \in Items : AbortedFinishes(i)
  \/ \E i \in Items : AfterDelay(i)
  \/ AbortAllObserved

NextBM ==
  \/ \E b \in Batches : ExecuteBatch(b)
  \/ \E i \in Items : AfterAcquire(i)
  \/ \E i \in Items : ExecutorResolves(i)
  \/ \E i \in Items : ExecutorRejects(i)
  \/ \E i \in Items : TimesOut(i)
  \/ \E i \in Items : AbortedFinishes(i)
  \/ \E i \in Items : AfterDelay(i)
  \/ AbortAll
  \/ UpdateConfigBM
  \/ ResetStats

\* Promise.all of executeBatch(b) has resolved: every executeRequest() returned
BatchResolved(b) ==
  /\ started[b]
  /\ \A k \in 1..Len(BatchRequests[b]) : pc[BatchRequests[b][k]] = "done"

\* the BatchResult[] executeBatch(b) resolves with
BatchResults(b) ==
  LET sorted == SortByPriority(BatchRequests[b])
  IN [k \in 1..Len(sorted) |-> [id |-> RequestId[sorted[k]], outcome |-> result[sorted[k]]]]

\* the items that hold a slot: between acquiring a permit and releasing it
Executing == {i \in Items : pc[i] \in {"acquired", "running", "aborted", "delaying"}}

(***************************************************************************)
(* BatchManager: the claims                                                *)
(***************************************************************************)

\* C9 (as stated): executeBatch() always eventually resolves, with exactly one
\* result per input request.
C9_BatchCompletes ==
  \A b \in Batches :
    started[b] ~> (/\ BatchResolved(b)
                   /\ Len(BatchResults(b)) = Len(BatchRequests[b])
                   /\ \A k \in 1..Len(BatchRequests[b]) : BatchResults(b)[k].outcome # "none")

\* C10 (as stated): at most maxConcurrent items are executing and the peak
\* concurrency reported never exceeds maxConcurrent.
C10_AtMostMaxConcurrent ==
  /\ Cardinality(Executing) <= bmConfig.maxConcurrent
  /\ peakConcurrency <= bmConfig.maxConcurrent

\* C11 (as stated): a retry-eligible failure is re-executed once, so the
\* executor is invoked at most twice for any one item.
C11_AtMostTwoInvocations ==
  \A i \in Items : attempts[i] <= 2

\* the slot Finish() gives back: a permit more, or the first waiter woken
SlotReleased ==
  \/ /\ Len(semaphore.waiting) = 0
     /\ semaphore'.permits = semaphore.permits + 1
  \/ /\ Len(semaphore.waiting) > 0
     /\ semaphore'.waiting = Tail(semaphore.waiting)
     /\ pc'[Head(semaphore.waiting)] = "acquired"

\* C27: an item whose timeout fires gets the error 'Request timeout' as its
\* result and is not retried; its slot is released, and the results of the
\* other items are left as they are.
C27_TimeoutAffectsOnlyItem ==
  [][\A i \in Items :
       TimesOut(i) =>
         /\ pc'[i] = "done" /\ result'[i] = "Request timeout"
         /\ attempts' = attempts
         /\ SlotReleased
         /\ \A j \in Items \ {i} : result'[j] = result[j]]_vars

\* an item has timed out on its first attempt, a sibling has its result, and
\* every slot is free again
C27_Witness ==
  \E i, j \in Items :
    /\ i # j
    /\ result[i] = "Request timeout" /\ attempts[i] = 1
    /\ result[j] = "result"
    /\ semaphore.permits = semaphore.maxPermits

\* C28 (as stated): every item that was executing, or between a failed
\* attempt and its retry, when abortAll() was called finishes with the error
\* 'Request aborted', whatever the ids of the items.
C28_AbortAllAbortsInFlight ==
  \A i \in inFlightAtAbort : pc[i] = "done" => result[i] = "Request aborted"

\* C39: with maxConcurrent = 1 the slot of a failed attempt is given back
\* when its retry asks for one: the retry, or the item that waited before it,
\* holds the slot after the step; a waiting retry gets the slot; and an
\* attempt that succeeds returns its result.  A started batch that has not
\* resolved always has an item that holds the slot.
C39_RetryGivesSlotBack ==
  /\ [](\A b \in Batches : (started[b] /\ ~BatchResolved(b)) => Executing # {})
  /\ [][\A i \in Items :
          AfterDelay(i) =>
            \/ pc'[i] = "acquired"
            \/ /\ pc'[i] = "waiting"
               /\ \E j \in Items \ {i} : pc[j] = "waiting" /\ pc'[j] = "acquired"]_vars
  /\ [][\A i \in Items :
          ExecutorResolves(i) => (pc'[i] = "done" /\ result'[i] = "result")]_vars
  /\ \A i \in Items : (pc[i] = "waiting" /\ attempts[i] > 0) ~> (pc[i] = "acquired")

\* the first batch has resolved: the item that ran first failed once with a
\* retryable error and succeeded on its retry, which had to wait for the slot
\* behind the other item
C39_Witness ==
  /\ bmConfig.maxConcurrent = 1
  /\ BatchResolved(1)
  /\ attempts[2] = 2 /\ result[2] = "result"
  /\ attempts[1] = 1 /\ result[1] = "result"
  /\ semaphore.permits = 1 /\ semaphore.waiting = <<>>
  /\ ~started[2]

(***************************************************************************)
(* PriorityQueue (src/unnamed/part_014)                                    *)
(* A payload is an object: its keys with their values, in insertion order. *)
(* A QueueItem object is identified by its index in pqItems, which stands  *)
(* for its random id.  The timers of the queue fire in the tick they are   *)
(* due in, in any order with the calls made in that tick.  Of an item's    *)
(* data its hash is kept: retry() hashes a shallow copy of the data (the   *)
(* same keys in the same order), which gives the hash of the item again.   *)
(* Not modelled: stats.totalWaitTime and QueueItem.retryCount, which are   *)
(* written and reported but never decide anything.                         *)
(***************************************************************************)
\* bounds of the queue's model
PQMaxTime == 3
MaxPQCalls == 4
MaxPQItems == 3

\* enum Priority
HIGH == 0
MEDIUM == 1
LOW == 2
Priorities == {HIGH, MEDIUM, LOW}

\* the configuration the queue is constructed with (times in clock ticks)
maxSize == 2
deduplicationWindowMs == 1

\* the position of a key in Object.keys(data).sort()
KeyRank(key) == IF key = "league" THEN 1 ELSE 2

\* the payloads enqueue() is called with: the first two differ in key order only
Payloads ==
  { << <<"league", "Standard">>, <<"query", "q1">> >>,
    << <<"query", "q1">>, <<"league", "Standard">> >>,
    << <<"league", "Standard">>, <<"query", "q2">> >>,
    << <<"league", "Standard">>, <<"query", "q3">> >> }

\* normalizeData(data) of an object with primitive values: its keys sorted
RECURSIVE normalizeData(_)
normalizeData(data) ==
  IF data = <<>> THEN <<>>
  ELSE LET first == CHOOSE k \in 1..Len(data) :
                      \A j \in 1..Len(data) : KeyRank(data[k][1]) <= KeyRank(data[j][1])
           rest == [j \in 1..(Len(data) - 1) |-> IF j < first THEN data[j] ELSE data[j + 1]]
       IN <<data[first]>> \o normalizeData(rest)

\* generateHash(data): the SHA256 digest of a JSON text stands for that text
generateHash(data) == normalizeData(data)

\* the hash of every payload
HashOf == [data \in Payloads |-> generateHash(data)]

Hashes == {HashOf[data] : data \in Payloads}

ItemIds == 1..MaxPQItems

\* what the last call did: op is "enqueue", "dequeue" or "none"
\*   waiting    the items waiting in the queue, when enqueue() was called, with
\*              the hash of the payload it was called with
\*   reserved   the deduplication map had that hash when it was called
\*   full       size() was at least maxSize when it was called
\*   returned   the id returned (NULL: null)
\*   inserted   a new item was inserted
\*   counted    by how much duplicatesPrevented grew
\*   unchanged  the call left queues, deduplication map, counters and items as they were
PQEvent(op, waiting, reserved, full, returned, inserted, counted, unchanged) ==
  [op |-> op, waiting |-> waiting, reserved |-> reserved, full |-> full,
   returned |-> returned, inserted |-> inserted, counted |-> counted,
   unchanged |-> unchanged]

NoPQEvent == PQEvent("none", {}, FALSE, FALSE, NULL, FALSE, 0, TRUE)

InitPQ ==
  /\ pqNow = 1
  /\ queues = [p \in Priorities |-> <<>>]
  /\ deduplicationMap = [h \in Hashes |-> NULL]
  /\ pqStats = [duplicatesPrevented |-> 0, totalProcessed |-> 0]
  /\ pqItems = <<>>
  /\ releaseTimers = [i \in ItemIds |-> NULL]
  /\ cleanupDue = 1 + deduplicationWindowMs
  /\ pqEv = NoPQEvent
  /\ dequeued = {}
  /\ retried = {}
  /\ pqCalls = 0

\* the fields of the queue object, as one value
PQ == [queues |-> queues, map |-> deduplicationMap, stats |-> pqStats, items |-> pqItems]

\* the fields of the queue object after a step
SetPQ(q) ==
  /\ queues' = q.queues
  /\ deduplicationMap' = q.map
  /\ pqStats' = q.stats
  /\ pqItems' = q.items

\* size()
size(qs) == Len(qs[HIGH]) + Len(qs[MEDIUM]) + Len(qs[LOW])

\* the items waiting in the queues
Waiting(qs) == UNION {{qs[p][k] : k \in 1..Len(qs[p])} : p \in Priorities}

\* the queue among HIGH, MEDIUM, LOW (in this order) that holds item id; 3: none
TierOf(qs, id) ==
  IF \E k \in 1..Len(qs[HIGH]) : qs[HIGH][k] = id THEN HIGH
  ELSE IF \E k \in 1..Len(qs[MEDIUM]) : qs[MEDIUM][k] = id THEN MEDIUM
  ELSE IF \E k \in 1..Len(qs[LOW]) : qs[LOW][k] = id THEN LOW
  ELSE 3

\* queue.splice(index, 1) for the index of item id
Spliced(seq, id) ==
  LET NotId(x) == x # id
  IN SelectSeq(seq, NotId)

\* updatePriority(id, newPriority) on queue object q: the object left, and the
\* value returned
updatePriority(q, id, newPriority) ==
  LET tier == TierOf(q.queues, id)
  IN IF tier \in Priorities
       THEN LET removed == [q.queues EXCEPT ![tier] = Spliced(@, id)]
            IN [q |-> [q EXCEPT !.queues = [removed EXCEPT ![newPriority] = Append(@, id)],
                                !.items[id].priority = newPriority],
                ok |-> TRUE]
       ELSE [q |-> q, ok |-> FALSE]

\* a bug: the queue takes one item more than maxSize
IsFullOffByOne(n) == n > maxSize

\* enqueue(): the test of the size limit
IsFull(n) == n >= maxSize

\* enqueue(data, priority) at time t on queue object q, for data of this
\* hash: the object left, and the id returned (NULL: null)
enqueue(q, hash, priority, t) ==
  LET existing == q.map[hash]
      counted == [q EXCEPT !.stats.duplicatesPrevented = @ + 1]
      id == Len(q.items) + 1
      item == [priority |-> priority, hash |-> hash, timestamp |-> t]
  IN IF existing # NULL
       THEN [q |-> IF priority < q.items[existing].priority
                     THEN updatePriority(counted, existing, priority).q
                     ELSE counted,
             id |-> existing]
     ELSE IF IsFull(size(q.queues))
       THEN [q |-> q, id |-> NULL]
     ELSE [q |-> [q EXCEPT !.queues[priority] = Append(@, id),
                           !.items = Append(@, item),
                           !.map[hash] = id],
           id |-> id]

\* the record of a call of enqueue() made on q, for data of this hash, that left r
EnqueueEvent(q, r, hash) ==
  PQEvent("enqueue",
          {i \in Waiting(q.queues) : q.items[i].hash = hash},
          q.map[hash] # NULL,
          size(q.queues) >= maxSize,
          r.id,
          Len(r.q.items) > Len(q.items),
          r.q.stats.duplicatesPrevented - q.stats.duplicatesPrevented,
          r.q = q)

\* one more call is made on the queue
Called ==
  /\ pqCalls < MaxPQCalls
  /\ pqCalls' = pqCalls + 1

\* enqueue(data, priority)
Enqueue(data, priority) ==
  LET r == enqueue(PQ, HashOf[data], priority, pqNow)
  IN /\ Len(r.q.items) <= MaxPQItems
     /\ SetPQ(r.q)
     /\ pqEv' = EnqueueEvent(PQ, r, HashOf[data])
     /\ UNCHANGED <<pqNow, releaseTimers, cleanupDue, dequeued, retried>>
     /\ Called
     /\ PQFrame

\* the first queue among HIGH, MEDIUM, LOW that is not empty; 3: none
FirstTier(qs) ==
  IF Len(qs[HIGH]) > 0 THEN HIGH
  ELSE IF Len(qs[MEDIUM]) > 0 THEN MEDIUM
  ELSE IF Len(qs[LOW]) > 0 THEN LOW
  ELSE 3

\* dequeue(): the head of the first queue that is not empty is returned and
\* the release of its hash is scheduled; null on an empty queue
DequeuePQ ==
  LET tier == FirstTier(queues)
  IN IF tier \in Priorities
       THEN LET id == Head(queues[tier])
            IN /\ queues' = [queues EXCEPT ![tier] = Tail(@)]
               /\ pqStats' = [pqStats EXCEPT !.totalProcessed = @ + 1]
               /\ releaseTimers' = [releaseTimers EXCEPT ![id] = pqNow + deduplicationWindowMs]
               /\ dequeued' = dequeued \cup {id}
               /\ pqEv' = PQEvent("dequeue", {}, FALSE, FALSE, id, FALSE, 0, FALSE)
               /\ UNCHANGED <<pqNow, deduplicationMap, pqItems, cleanupDue, retried>>
               /\ Called
               /\ PQFrame
       ELSE /\ pqEv' = PQEvent("dequeue", {}, FALSE, FALSE, NULL, FALSE, 0, TRUE)
            /\ UNCHANGED <<pqNow, queues, deduplicationMap, pqStats, pqItems, releaseTimers,
                           cleanupDue, dequeued, retried>>
            /\ Called
            /\ PQFrame

\* the callback of the setTimeout of dequeue() for item i: the hash is released
\* if the deduplication map still records this very item for it
ReleaseTimerFires(i) ==
  /\ releaseTimers[i] # NULL
  /\ pqNow >= releaseTimers[i]
  /\ releaseTimers' = [releaseTimers EXCEPT ![i] = NULL]
  /\ deduplicationMap' =
       IF deduplicationMap[pqItems[i].hash] = i
         THEN [deduplicationMap EXCEPT ![pqItems[i].hash] = NULL]
         ELSE deduplicationMap
  /\ pqEv' = NoPQEvent
  /\ UNCHANGED <<pqNow, queues, pqStats, pqItems, cleanupDue, dequeued, retried, pqCalls>>
  /\ PQFrame

\* cleanup(): the test that an entry of the deduplication map is dropped
Expired(hash) ==
  /\ deduplicationMap[hash] # NULL
  /\ ~ \E i \in Waiting(queues) : pqItems[i].hash = hash
  /\ pqNow - pqItems[deduplicationMap[hash]].timestamp > deduplicationWindowMs

\* the callback of the setInterval of startCleanupTimer(): cleanup()
CleanupFires ==
  /\ pqNow >= cleanupDue
  /\ cleanupDue' = pqNow + deduplicationWindowMs
  /\ deduplicationMap' = [h \in Hashes |-> IF Expired(h) THEN NULL ELSE deduplicationMap[h]]
  /\ pqEv' = NoPQEvent
  /\ UNCHANGED <<pqNow, queues, pqStats, pqItems, releaseTimers, dequeued, retried, pqCalls>>
  /\ PQFrame

\* clear()
ClearPQ ==
  /\ queues' = [p \in Priorities |-> <<>>]
  /\ deduplicationMap' = [h \in Hashes |-> NULL]
  /\ pqEv' = NoPQEvent
  /\ UNCHANGED <<pqNow, pqStats, pqItems, releaseTimers, cleanupDue, dequeued, retried>>
  /\ Called
  /\ PQFrame

\* remove(id), for the id of an item created so far
RemovePQ(id) ==
  /\ id <= Len(pqItems)
  /\ LET tier == TierOf(queues, id)
     IN IF tier \in Priorities
          THEN /\ queues' = [queues EXCEPT ![tier] = Spliced(@, id)]
               /\ deduplicationMap' = [deduplicationMap EXCEPT ![pqItems[id].hash] = NULL]
          ELSE UNCHANGED <<queues, deduplicationMap>>
  /\ pqEv' = NoPQEvent
  /\ UNCHANGED <<pqNow, pqStats, pqItems, releaseTimers, cleanupDue, dequeued, retried>>
  /\ Called
  /\ PQFrame

\* updatePriority(id, newPriority), for the id of an item created so far
UpdatePriorityPQ(id, newPriority) ==
  /\ id <= Len(pqItems)
  /\ SetPQ(updatePriority(PQ, id, newPriority).q)
  /\ pqEv' = NoPQEvent
  /\ UNCHANGED <<pqNow, releaseTimers, cleanupDue, dequeued, retried>>
  /\ Called
  /\ PQFrame

\* retry(item), for an item dequeue() returned and that was not retried yet:
\* its hash is dropped from the deduplication map and a copy of its payload
\* enqueued one priority lower
RetryPQ(i) ==
  /\ i \in dequeued
  /\ i \notin retried
  /\ LET item == pqItems[i]
         newPriority == Min(item.priority + 1, LOW)
         dropped == [PQ EXCEPT !.map[item.hash] = NULL]
         r == enqueue(dropped, item.hash, newPriority, pqNow)
     IN /\ Len(r.q.items) <= MaxPQItems
        /\ SetPQ(r.q)
        /\ pqEv' = EnqueueEvent(dropped, r, item.hash)
  /\ retried' = retried \cup {i}
  /\ UNCHANGED <<pqNow, releaseTimers, cleanupDue, dequeued>>
  /\ Called
  /\ PQFrame

\* a tick of the clock, once the timers due have fired
TickPQ ==
  /\ pqNow < PQMaxTime
  /\ \A i \in ItemIds : releaseTimers[i] = NULL \/ releaseTimers[i] > pqNow
  /\ cleanupDue > pqNow
  /\ pqNow' = pqNow + 1
  /\ pqEv' = NoPQEvent
  /\ UNCHANGED <<queues, deduplicationMap, pqStats, pqItems, releaseTimers, cleanupDue,
                 dequeued, retried, pqCalls>>
  /\ PQFrame

\* enqueue(), updatePriority() and dequeue() only: no clear(), remove() or retry()
NextPQQueueing ==
  \/ \E data \in Payloads, priority \in Priorities : Enqueue(data, priority)
  \/ DequeuePQ
  \/ \E i \in ItemIds : ReleaseTimerFires(i)
  \/ CleanupFires
  \/ \E id \in ItemIds, newPriority \in Priorities : UpdatePriorityPQ(id, newPriority)
  \/ TickPQ

NextPQ ==
  \/ \E data \in Payloads, priority \in Priorities : Enqueue(data, priority)
  \/ DequeuePQ
  \/ \E i \in ItemIds : ReleaseTimerFires(i)
  \/ CleanupFires
  \/ ClearPQ
  \/ \E id \in ItemIds : RemovePQ(id)
  \/ \E id \in ItemIds, newPriority \in Priorities : UpdatePriorityPQ(id, newPriority)
  \/ \E i \in ItemIds : RetryPQ(i)
  \/ TickPQ

(***************************************************************************)
(* PriorityQueue: the claims                                               *)
(***************************************************************************)

\* C12 (as stated): an enqueue() called while an item with the same normalized
\* payload is waiting inserts nothing, returns the id of that item and counts
\* one duplicate; an enqueue() that inserts or returns null counts none.
C12_DuplicateCollapsed ==
  pqEv.op = "enqueue" =>
    /\ pqEv.waiting # {} =>
         (~pqEv.inserted /\ pqEv.returned \in pqEv.waiting /\ pqEv.counted = 1)
    /\ (pqEv.inserted \/ pqEv.returned = NULL) => pqEv.counted = 0

\* C14 (as stated): while the deduplication window of a dequeued item has not
\* passed, and no clear(), remove() or retry() was called, its hash is in the
\* deduplication map, so that an enqueue() of the same payload is collapsed.
C14_HashReservedForWindow ==
  \A i \in dequeued :
    (releaseTimers[i] # NULL /\ pqNow < releaseTimers[i])
      => deduplicationMap[pqItems[i].hash] # NULL

\* C15 (as stated): dequeue() never returns an item while an item with an
\* earlier enqueue timestamp waits in the same priority tier.
C15_FifoWithinTier ==
  (pqEv.op = "dequeue" /\ pqEv.returned # NULL) =>
    LET tier == queues[pqItems[pqEv.returned].priority]
    IN \A k \in 1..Len(tier) :
         pqItems[tier[k]].timestamp >= pqItems[pqEv.returned].timestamp

\* C16: the queue never holds more than maxSize items, and an enqueue() of a
\* payload whose hash is not in the deduplication map, called on a full queue,
\* returns null and leaves queues, deduplication map, counters and items alone.
C16_BoundedExplicitFailure ==
  /\ size(queues) <= maxSize
  /\ (pqEv.op = "enqueue" /\ pqEv.full /\ ~pqEv.reserved)
       => (pqEv.returned = NULL /\ pqEv.unchanged)

\* a payload with a new hash was enqueued on a queue holding maxSize items
C16_Witness ==
  /\ pqEv.op = "enqueue"
  /\ pqEv.full
  /\ ~pqEv.reserved
  /\ pqEv.returned = NULL
  /\ size(queues) = maxSize
  /\ \A h \in Hashes : deduplicationMap[h] = NULL
                        \/ deduplicationMap[h] \in Waiting(queues)

\* C40 (as stated): no two waiting items have the same content hash, and every
\* waiting item is the item the deduplication map records for its hash.
C40_WaitingItemsAreRecorded ==
  /\ \A i, j \in Waiting(queues) : pqItems[i].hash = pqItems[j].hash => i = j
  /\ \A i \in Waiting(queues) : deduplicationMap[pqItems[i].hash] = i


(***************************************************************************)
(* The handler of poe2official_batch_search (src/unnamed/part_009)         *)
(* One call of the handler: it enqueues every search in priorityQueue,     *)
(* hands the batch requests to batchManager.executeBatch() and clears the  *)
(* queue when the batch has resolved.  The searches carry no id and no     *)
(* priority, so that every request has Priority.MEDIUM and the sort of     *)
(* executeBatch() keeps their order.  The executor catches the errors of   *)
(* searchTrade itself; the 30 s timeout of a request is not modelled.      *)
(***************************************************************************)
\* bound of the handler's model: the searches of one call
MaxSearches == 3

SearchIndexes == 1..MaxSearches

\* the values of args.maxConcurrent
MaxConcurrentArgs == {1, 2}

\* the value of a key of a search
RECURSIVE Field(_, _)
Field(search, key) ==
  IF search = <<>> THEN "undefined"
  ELSE IF Head(search)[1] = key THEN Head(search)[2]
  ELSE Field(Tail(search), key)

\* batchCache.generateKey('search', {league, query, exchange}) of a search
generateKey(search) == <<Field(search, "league"), Field(search, "query")>>

CacheKeys == {generateKey(search) : search \in Payloads}

InitBS ==
  /\ bsStage = "idle"
  /\ bsRequests = <<>>
  /\ bsSemaphore = NewSemaphore(1)
  /\ bsPc = [k \in SearchIndexes |-> "none"]
  /\ batchCache = {}
  /\ searchCalls = [key \in CacheKeys |-> 0]

\* the loop over searches: every search is enqueued and, unless the queue is
\* full, pushed as a batch request under the id enqueue() returned
RECURSIVE EnqueueAll(_, _, _)
EnqueueAll(searches, q, batchRequests) ==
  IF searches = <<>> THEN [q |-> q, requests |-> batchRequests]
  ELSE LET r == enqueue(q, HashOf[Head(searches)], MEDIUM, pqNow)
       IN EnqueueAll(Tail(searches), r.q,
                     IF r.id = NULL THEN batchRequests
                     ELSE Append(batchRequests, [id |-> r.id, data |-> Head(searches)]))

\* the searches a call is made with
SearchLists == UNION {[1..n -> Payloads] : n \in 1..MaxSearches}

\* handler(args), up to `await batchManager.executeBatch(...)`
Handler(searches, maxConcurrent) ==
  /\ bsStage = "idle"
  /\ bsStage' = "executing"
  /\ LET e == EnqueueAll(searches, PQ, <<>>)
         a == AcquireAll([k \in 1..Len(e.requests) |-> k], NewSemaphore(maxConcurrent), bsPc)
     IN /\ SetPQ(e.q)
        /\ bsRequests' = e.requests
        /\ bsSemaphore' = a.sem
        /\ bsPc' = a.pc
  /\ UNCHANGED <<batchCache, searchCalls>>
  /\ BSFrame

\* the finally block of executeRequest() of request k: the semaphore is released
FinishSearch(k) ==
  LET r == SemRelease(bsSemaphore)
  IN /\ bsSemaphore' = r.sem
     /\ bsPc' = [j \in SearchIndexes |-> IF j = k THEN "done"
                                         ELSE IF j = r.woken THEN "acquired" ELSE bsPc[j]]

\* executeRequest() of request k after its acquire(): the executor is invoked;
\* it returns the cached result or waits delayBetweenMs
ExecutorStarts(k) ==
  /\ bsPc[k] = "acquired"
  /\ IF generateKey(bsRequests[k].data) \in batchCache
       THEN FinishSearch(k)
       ELSE /\ bsPc' = [bsPc EXCEPT ![k] = "delaying"]
            /\ UNCHANGED bsSemaphore
  /\ UNCHANGED <<bsStage, bsRequests, batchCache, searchCalls, queues, deduplicationMap,
                 pqStats, pqItems>>
  /\ BSFrame

\* the executor of request k after its delay: client.searchTrade is called
SearchTradeCalled(k) ==
  /\ bsPc[k] = "delaying"
  /\ bsPc' = [bsPc EXCEPT ![k] = "searching"]
  /\ searchCalls' = [searchCalls EXCEPT ![generateKey(bsRequests[k].data)] = @ + 1]
  /\ UNCHANGED <<bsStage, bsRequests, bsSemaphore, batchCache, queues, deduplicationMap,
                 pqStats, pqItems>>
  /\ BSFrame

\* searchTrade resolves: the result is cached and returned
SearchTradeResolves(k) ==
  /\ bsPc[k] = "searching"
  /\ batchCache' = batchCache \cup {generateKey(bsRequests[k].data)}
  /\ FinishSearch(k)
  /\ UNCHANGED <<bsStage, bsRequests, searchCalls, queues, deduplicationMap, pqStats,
                 pqItems>>
  /\ BSFrame

\* searchTrade rejects: the executor returns a result that carries the error
SearchTradeRejects(k) ==
  /\ bsPc[k] = "searching"
  /\ FinishSearch(k)
  /\ UNCHANGED <<bsStage, bsRequests, batchCache, searchCalls, queues, deduplicationMap,
                 pqStats, pqItems>>
  /\ BSFrame

\* executeBatch() has resolved: the response is built and the queue cleared
HandlerReturns ==
  /\ bsStage = "executing"
  /\ \A k \in 1..Len(bsRequests) : bsPc[k] = "done"
  /\ bsStage' = "returned"
  /\ queues' = [p \in Priorities |-> <<>>]
  /\ deduplicationMap' = [h \in Hashes |-> NULL]
  /\ UNCHANGED <<bsRequests, bsSemaphore, bsPc, batchCache, searchCalls, pqStats, pqItems>>
  /\ BSFrame

NextBS ==
  \/ \E searches \in SearchLists, maxConcurrent \in MaxConcurrentArgs :
       Handler(searches, maxConcurrent)
  \/ \E k \in SearchIndexes : ExecutorStarts(k)
  \/ \E k \in SearchIndexes : SearchTradeCalled(k)
  \/ \E k \in SearchIndexes : SearchTradeResolves(k)
  \/ \E k \in SearchIndexes : SearchTradeRejects(k)
  \/ HandlerReturns

(***************************************************************************)
(* The handler of poe2official_batch_search: the claims                    *)
(***************************************************************************)

\* C13 (as stated): the searches of one batch that have the same normalized
\* payload cause at most one call of the upstream search.
C13_OneUpstreamCallPerPayload ==
  \A key \in CacheKeys : searchCalls[key] <= 1

(***************************************************************************)
(* CacheManager (src/src/cache/cache_manager.ts) over L1Cache              *)
(* (src/unnamed/part_005, a wrapper of the node-cache library) and L2Cache *)
(* (src/src/cache/l2_cache.ts over the SQLiteClient of src/unnamed/part_006)*)
(* with the policies of CacheInvalidation (src/unnamed/part_004) and the   *)
(* keys of KeyGenerator (src/src/utils/key_generation.ts).                 *)
(*                                                                         *)
(* A key is the sequence of the tokens of its text ("v1", ":", the type,   *)
(* ":", then k "=" v joined by "&"), so that the regular expression of     *)
(* L1Cache.getKeysByPattern and the LIKE of SQLiteClient.delByPattern are  *)
(* computed on the text, token by token.  A value is the number of the     *)
(* set() that wrote it.  Both tiers are enabled, as in DEFAULT_CACHE_CONFIG.*)
(* node-cache: set() throws ECACHEFULL when it holds maxKeys keys, an      *)
(* entry is expired once its time is before Date.now(), get() deletes the  *)
(* expired entry it finds and the check period deletes all of them.  The   *)
(* compression of L2 values, the access metadata of a row and the          *)
(* response-time and request-count metrics are not modelled.               *)
(***************************************************************************)
\* bounds of the cache's model
CMMaxTime == 6
MaxSets == 2
MaxCMCalls == 3

\* config.l1.maxKeys and config.l1.defaultTTL, policies[type].l1TTL and .l2TTL
\* of the manager that is modelled (times in clock ticks)
l1MaxKeys == 1
defaultTTL == 2
policyL1TTL == 2
policyL2TTL == 4

DataTypes ==
  {"leagues", "categories", "unique_items", "currency_items", "item_history",
   "item_filters", "landing_info", "base_items", "search_results"}

\* config.policies: the types that have a policy ("categories" has none)
policies ==
  [dataType \in DataTypes |->
     IF dataType = "categories" THEN [l1TTL |-> 0, l2TTL |-> 0]
     ELSE [l1TTL |-> policyL1TTL, l2TTL |-> policyL2TTL]]

\* CacheInvalidation.getTTL: `policy?.l1TTL || defaultTTL`
getTTL(dataType) ==
  IF policies[dataType].l1TTL # 0 THEN policies[dataType].l1TTL ELSE defaultTTL

\* CacheInvalidation.getL2TTL: `policy?.l2TTL || getTTL(dataType) * 5`
getL2TTL(dataType) ==
  IF policies[dataType].l2TTL # 0 THEN policies[dataType].l2TTL ELSE getTTL(dataType) * 5

\* CacheInvalidation.cascadeMap
cascadeMap ==
  [dataType \in DataTypes |->
     CASE dataType = "leagues" -> <<"unique_items", "currency_items", "search_results">>
       [] dataType = "categories" -> <<"unique_items", "currency_items">>
       [] dataType = "unique_items" -> <<"search_results">>
       [] dataType = "currency_items" -> <<"search_results">>
       [] dataType = "landing_info" -> <<"base_items">>
       [] OTHER -> <<>>]

\* the number of characters of a token; "qLong" stands for a query of 190
\* characters
TextLength(token) ==
  CASE token \in {":", "=", "&"} -> 1
    [] token = "v1" -> 2
    [] token = "query" -> 5
    [] token = "league" -> 6
    [] token = "Standard" -> 8
    [] token = "categories" -> 10
    [] token = "unique_items" -> 12
    [] token = "search_results" -> 14
    [] token = "qLong" -> 190
    [] OTHER -> 8

RECURSIVE Length(_)
Length(text) == IF text = <<>> THEN 0 ELSE TextLength(Head(text)) + Length(Tail(text))

\* the order of Array.prototype.sort() on the parameter names of the model
ParamRank(key) ==
  CASE key = "category" -> 1
    [] key = "league" -> 2
    [] OTHER -> 3

\* KeyGenerator.sortAndNormalizeParams: the parameters sorted by name (the
\* values of the model are strings already)
RECURSIVE sortAndNormalizeParams(_)
sortAndNormalizeParams(params) ==
  IF params = <<>> THEN <<>>
  ELSE LET first == CHOOSE k \in 1..Len(params) :
                      \A j \in 1..Len(params) : ParamRank(params[k][1]) <= ParamRank(params[j][1])
           rest == [j \in 1..(Len(params) - 1) |-> IF j < first THEN params[j] ELSE params[j + 1]]
       IN <<params[first]>> \o sortAndNormalizeParams(rest)

\* KeyGenerator.serializeParams: `key=value` joined by '&'
RECURSIVE serializeParams(_)
serializeParams(params) ==
  IF params = <<>> THEN <<>>
  ELSE <<Head(params)[1], "=">> \o Head(params)[2]
       \o (IF Len(params) > 1 THEN <<"&">> ELSE <<>>) \o serializeParams(Tail(params))

\* the key length above which generateKey replaces the parameters by a digest
MaxKeyLength == 200

\* KeyGenerator.hashString: 16 hex digits of the SHA-256 digest; one request of
\* the model is long enough to be hashed, "digest16" stands for its digest
hashString(input) == "digest16"

\* KeyGenerator.generateKey(type, params)
generateCacheKey(dataType, params) ==
  LET baseKey == <<"v1", ":", dataType, ":">> \o serializeParams(sortAndNormalizeParams(params))
  IN IF Length(baseKey) > MaxKeyLength
       THEN <<"v1", ":", dataType, ":", hashString(baseKey)>>
       ELSE baseKey

\* KeyGenerator.getTypePattern(type): `v1:<type>:*`
getTypePattern(dataType) == <<"v1", ":", dataType, ":", "*">>

\* the requests made on the manager: a type and the parameters, as given
CacheRequests ==
  { [dataType |-> "categories", params |-> <<>>],
    [dataType |-> "unique_items", params |-> << <<"league", <<"Standard">> >> >>],
    [dataType |-> "search_results",
     params |-> << <<"query", <<"qLong">> >>, <<"league", <<"Standard">> >> >>],
    [dataType |-> "search_results",
     params |-> << <<"query", <<"v1", ":", "categories">> >> >>] }

KeyOf(request) == generateCacheKey(request.dataType, request.params)

CMKeys == {KeyOf(request) : request \in CacheRequests}

\* KeyGenerator.getTypeFromKey(key)
getTypeFromKey(key) == key[3]

\* the value of the league parameter of a request, or "undefined"
RECURSIVE LeagueOf(_)
LeagueOf(params) ==
  IF params = <<>> THEN "undefined"
  ELSE IF Head(params)[1] = "league" THEN Head(params)[2][1]
  ELSE LeagueOf(Tail(params))

\* the text matches the regular expression from its first token on; the
\* patterns of the model are made of literal tokens, `x*` and `.*`
RECURSIVE RegexPrefix(_, _)
RegexPrefix(pattern, text) ==
  IF pattern = <<>> THEN TRUE
  ELSE IF Len(pattern) >= 2 /\ pattern[2] = "*"
    THEN \/ RegexPrefix(SubSeq(pattern, 3, Len(pattern)), text)
         \/ /\ text # <<>>
            /\ pattern[1] \in {".", Head(text)}
            /\ RegexPrefix(pattern, Tail(text))
  ELSE /\ text # <<>>
       /\ pattern[1] \in {".", Head(text)}
       /\ RegexPrefix(Tail(pattern), Tail(text))

\* new RegExp(pattern).test(text): the expression is not anchored
RegexTest(pattern, text) ==
  \E i \in 1..(Len(text) + 1) : RegexPrefix(pattern, SubSeq(text, i, Len(text)))

\* SQLiteClient.delByPattern: pattern.replace(/\*/g, '%')
sqlPattern(pattern) ==
  [i \in 1..Len(pattern) |-> IF pattern[i] = "*" THEN "%" ELSE pattern[i]]

\* text LIKE pattern: '%' is any text, the whole text has to match
RECURSIVE Like(_, _)
Like(pattern, text) ==
  IF pattern = <<>> THEN text = <<>>
  ELSE IF Head(pattern) = "%"
    THEN Like(Tail(pattern), text) \/ (text # <<>> /\ Like(pattern, Tail(text)))
  ELSE text # <<>> /\ Head(pattern) = Head(text) /\ Like(Tail(pattern), Tail(text))

\* CacheInvalidation.invalidateByType(dataType, cascade): the patterns
RECURSIVE TypePatterns(_)
TypePatterns(dataTypes) ==
  IF dataTypes = <<>> THEN <<>>
  ELSE <<getTypePattern(Head(dataTypes))>> \o TypePatterns(Tail(dataTypes))

invalidateByTypePatterns(dataType, cascade) ==
  <<getTypePattern(dataType)>>
    \o (IF cascade THEN TypePatterns(cascadeMap[dataType]) ELSE <<>>)

\* CacheInvalidation.invalidateByLeague(league): the patterns
leagueDataTypes == <<"unique_items", "currency_items", "item_history", "search_results">>

invalidateByLeaguePatterns(league) ==
  [i \in 1..Len(leagueDataTypes) |->
     <<"v1", ":", leagueDataTypes[i], ":", ".", "*", "league", "=", league, ".", "*">>]

\* no entry under a key; no call suspended
NoEntry == [value |-> NULL, expires |-> NULL]
NoCall == [active |-> FALSE, key |-> <<>>, dataType |-> "", value |-> NULL,
           at |-> NULL, expiresAt |-> NULL, l1Success |-> FALSE]

\* node-cache: the keys held, expired ones included until they are deleted
L1Keys(cache) == {key \in CMKeys : cache[key] # NoEntry}

\* node-cache get(key): the entry, if it has not expired
L1Get(cache, key, t) ==
  IF cache[key] # NoEntry /\ cache[key].expires >= t THEN cache[key].value ELSE NULL

\* node-cache get(key) deletes the entry it finds expired
L1Checked(cache, key, t) ==
  IF cache[key] # NoEntry /\ cache[key].expires < t
    THEN [cache EXCEPT ![key] = NoEntry] ELSE cache

\* L1Cache.set(key, value, ttl): false when node-cache throws ECACHEFULL
L1Set(cache, key, value, ttl, t) ==
  IF Cardinality(L1Keys(cache)) >= l1MaxKeys
    THEN [ok |-> FALSE, cache |-> cache]
    ELSE [ok |-> TRUE, cache |-> [cache EXCEPT ![key] = [value |-> value, expires |-> t + ttl]]]

\* L1Cache.delByPattern(pattern) for each pattern
RECURSIVE L1DelByPatterns(_, _)
L1DelByPatterns(cache, patterns) ==
  IF patterns = <<>> THEN cache
  ELSE L1DelByPatterns([key \in CMKeys |-> IF RegexTest(Head(patterns), key)
                                            THEN NoEntry ELSE cache[key]],
                       Tail(patterns))

\* SQLiteClient.get(key): the row, if `ttl > now`
SqliteGet(rows, key, t) ==
  IF rows[key] # NoEntry /\ rows[key].expires > t THEN rows[key].value ELSE NULL

\* SQLiteClient.delByPattern(pattern) for each pattern
RECURSIVE L2DelByPatterns(_, _)
L2DelByPatterns(rows, patterns) ==
  IF patterns = <<>> THEN rows
  ELSE L2DelByPatterns([key \in CMKeys |-> IF Like(sqlPattern(Head(patterns)), key)
                                            THEN NoEntry ELSE rows[key]],
                       Tail(patterns))

\* L2Cache.getStats().hitRate, in percent
l2HitRate ==
  IF l2Stats.hits + l2Stats.misses > 0
    THEN (l2Stats.hits * 100) \div (l2Stats.hits + l2Stats.misses) ELSE 0

\* SQLiteClient.getStats(): expiredKeys are the rows with `ttl <= now`,
\* totalKeys the other rows
l2ExpiredEntries == Cardinality({key \in L1Keys(l2Cache) : l2Cache[key].expires <= cmNow})
l2TotalEntries == Cardinality(L1Keys(l2Cache)) - l2ExpiredEntries

\* L2Cache.getHealth().status: the hit rate below 50 or more than a quarter of
\* the rows expired is a warning, more than half of the rows expired critical
l2Health ==
  IF l2TotalEntries > 0 /\ l2ExpiredEntries * 100 > 50 * l2TotalEntries THEN "critical"
  ELSE IF l2HitRate < 50 THEN "warning"
  ELSE IF l2TotalEntries > 0 /\ l2ExpiredEntries * 100 > 25 * l2TotalEntries THEN "warning"
  ELSE "healthy"

\* CacheManager.getHealth().status: `errorRate > 0.1` is a warning, and a
\* status of L2 other than healthy replaces it
getHealth ==
  LET own == IF metrics.errorRate * 10 > 1 THEN "warning" ELSE "healthy"
  IN IF l2Health # "healthy" THEN l2Health ELSE own

\* what a call did: the tiers' keys it removed, the value and the tier a get()
\* returned, the L2 statistics when the call began, the time it was done
CMEvent(op, key, dataType, at, value, source, ok, arg, cascade, removedL1, removedL2) ==
  [op |-> op, key |-> key, dataType |-> dataType, at |-> at, value |-> value,
   source |-> source, ok |-> ok, arg |-> arg, cascade |-> cascade,
   removedL1 |-> removedL1, removedL2 |-> removedL2, l2Before |-> l2Stats,
   done |-> cmNow, l1Success |-> FALSE, l2Success |-> FALSE,
   errorsBefore |-> metrics.errorRate, healthBefore |-> getHealth]

NoCMEvent ==
  [op |-> "none", key |-> <<>>, dataType |-> "", at |-> NULL, value |-> NULL,
   source |-> "", ok |-> FALSE, arg |-> "", cascade |-> FALSE,
   removedL1 |-> {}, removedL2 |-> {}, l2Before |-> [hits |-> 0, misses |-> 0],
   done |-> NULL, l1Success |-> FALSE, l2Success |-> FALSE, errorsBefore |-> 0,
   healthBefore |-> "healthy"]

InitCM ==
  /\ cmNow = 1
  /\ l1Cache = [key \in CMKeys |-> NoEntry]
  /\ l2Cache = [key \in CMKeys |-> NoEntry]
  /\ l2Stats = [hits |-> 0, misses |-> 0]
  /\ metrics = [errorRate |-> 0]
  /\ pendingGet = NoCall
  /\ pendingSet = NoCall
  /\ setLog = <<>>
  /\ cmEv = NoCMEvent
  /\ cmCalls = 0

CMCalled ==
  /\ cmCalls < MaxCMCalls
  /\ cmCalls' = cmCalls + 1

\* set(dataType, params, value) up to `await this.l2Cache.set(...)`: L1 is
\* written, L2Cache.set has computed expiresAt and awaits the compression
SetStart(request) ==
  /\ ~pendingSet.active
  /\ Len(setLog) < MaxSets
  /\ CMCalled
  /\ LET key == KeyOf(request)
         value == Len(setLog) + 1
         r == L1Set(l1Cache, key, value, getTTL(request.dataType), cmNow)
     IN /\ l1Cache' = r.cache
        /\ pendingSet' = [active |-> TRUE, key |-> key, dataType |-> request.dataType,
                          value |-> value, at |-> cmNow,
                          expiresAt |-> cmNow + getL2TTL(request.dataType),
                          l1Success |-> r.ok]
        /\ setLog' = Append(setLog, [key |-> key, at |-> cmNow])
        /\ cmEv' = CMEvent("setStart", key, request.dataType, cmNow, value, "", r.ok,
                           "", FALSE, {}, {})
  /\ UNCHANGED <<cmNow, l2Cache, l2Stats, metrics, pendingGet>>
  /\ CMFrame

\* a bug: set() succeeds as soon as one tier took the value
SetSuccessAny(l1Success, l2Success) == l1Success \/ l2Success

\* a bug: set() reports the outcome of the last tier only
SetSuccessLastTier(l1Success, l2Success) == l2Success

\* set(): `success = success && l1Success`, then `success = success && l2Success`
SetSuccess(l1Success, l2Success) == l1Success /\ l2Success

\* set() resumed: SQLiteClient.set has written the row, or has failed and
\* left the table alone (L2Cache.set returns false); set() returns `success`
SetResume(l2Success) ==
  /\ pendingSet.active
  /\ l2Cache' = IF l2Success
                  THEN [l2Cache EXCEPT ![pendingSet.key] =
                          [value |-> pendingSet.value, expires |-> pendingSet.expiresAt]]
                  ELSE l2Cache
  /\ pendingSet' = NoCall
  /\ cmEv' = [CMEvent("set", pendingSet.key, pendingSet.dataType, pendingSet.at,
                      pendingSet.value, "", SetSuccess(pendingSet.l1Success, l2Success),
                      "", FALSE, {}, {})
                EXCEPT !.l1Success = pendingSet.l1Success, !.l2Success = l2Success]
  /\ UNCHANGED <<cmNow, l1Cache, l2Stats, metrics, pendingGet, setLog, cmCalls>>
  /\ CMFrame

\* get(dataType, params) up to its return of the L1 value or, on an L1 miss,
\* up to `await this.l2Cache.get(key)`, in which SQLiteClient.get has run
GetStart(request) ==
  /\ ~pendingGet.active
  /\ CMCalled
  /\ LET key == KeyOf(request)
         l1Value == L1Get(l1Cache, key, cmNow)
         row == SqliteGet(l2Cache, key, cmNow)
     IN IF l1Value # NULL
          THEN /\ cmEv' = CMEvent("get", key, request.dataType, cmNow, l1Value, "l1", TRUE,
                                  "", FALSE, {}, {})
               /\ UNCHANGED <<l1Cache, l2Stats, pendingGet>>
          ELSE /\ l1Cache' = L1Checked(l1Cache, key, cmNow)
               /\ l2Stats' = IF row = NULL THEN [l2Stats EXCEPT !.misses = @ + 1]
                             ELSE l2Stats
               /\ pendingGet' = [NoCall EXCEPT !.active = TRUE, !.key = key,
                                               !.dataType = request.dataType,
                                               !.value = row, !.at = cmNow]
               /\ cmEv' = CMEvent("getStart", key, request.dataType, cmNow, NULL, "",
                                  FALSE, "", FALSE, {}, {})
  /\ UNCHANGED <<cmNow, l2Cache, metrics, pendingSet, setLog>>
  /\ CMFrame

\* get() resumed: the L2 value is written to L1 and returned, or the miss is
\* thrown, which the catch block counts in metrics.errorRate
GetResume ==
  /\ pendingGet.active
  /\ pendingGet' = NoCall
  /\ IF pendingGet.value # NULL
       THEN /\ l1Cache' = L1Set(l1Cache, pendingGet.key, pendingGet.value,
                                getTTL(pendingGet.dataType), cmNow).cache
            /\ l2Stats' = [l2Stats EXCEPT !.hits = @ + 1]
            /\ cmEv' = CMEvent("get", pendingGet.key, pendingGet.dataType, pendingGet.at,
                               pendingGet.value, "l2", TRUE, "", FALSE, {}, {})
            /\ UNCHANGED metrics
       ELSE /\ metrics' = [metrics EXCEPT !.errorRate = @ + 1]
            /\ cmEv' = CMEvent("get", pendingGet.key, pendingGet.dataType, pendingGet.at,
                               NULL, "miss", FALSE, "", FALSE, {}, {})
            /\ UNCHANGED <<l1Cache, l2Stats>>
  /\ UNCHANGED <<cmNow, l2Cache, pendingSet, setLog, cmCalls>>
  /\ CMFrame

\* invalidate(patterns): every pattern is deleted from L1 and from L2
Invalidate(op, arg, cascade, patterns) ==
  /\ l1Cache' = L1DelByPatterns(l1Cache, patterns)
  /\ l2Cache' = L2DelByPatterns(l2Cache, patterns)
  /\ cmEv' = CMEvent(op, <<>>, "", cmNow, NULL, "", TRUE, arg, cascade,
                     L1Keys(l1Cache) \ L1Keys(l1Cache'), L1Keys(l2Cache) \ L1Keys(l2Cache'))
  /\ UNCHANGED <<cmNow, l2Stats, metrics, pendingGet, pendingSet, setLog>>
  /\ CMFrame

\* invalidateByType(dataType, cascade)
InvalidateByType(dataType, cascade) ==
  /\ CMCalled
  /\ Invalidate("invalidateByType", dataType, cascade,
                invalidateByTypePatterns(dataType, cascade))

\* invalidateByLeague(league)
InvalidateByLeague(league) ==
  /\ CMCalled
  /\ Invalidate("invalidateByLeague", league, FALSE, invalidateByLeaguePatterns(league))

\* node-cache checkData(): the expired entries are deleted
L1CheckData(cache, t) ==
  [key \in CMKeys |-> L1Checked(cache, key, t)[key]]

\* time passes: a tick is far longer than a call stays suspended and longer
\* than the check period of node-cache, which has run when the tick is over
TickCM ==
  /\ cmNow < CMMaxTime
  /\ ~pendingGet.active
  /\ ~pendingSet.active
  /\ cmNow' = cmNow + 1
  /\ l1Cache' = L1CheckData(l1Cache, cmNow + 1)
  /\ UNCHANGED <<l2Cache, l2Stats, metrics, pendingGet, pendingSet, setLog, cmEv, cmCalls>>
  /\ CMFrame

\* the types and the leagues the invalidations are called with
InvalidatedTypes == {"categories"}
InvalidatedLeagues == {"Standard"}

NextCM ==
  \/ \E request \in CacheRequests : SetStart(request)
  \/ \E l2Success \in BOOLEAN : SetResume(l2Success)
  \/ \E request \in CacheRequests : GetStart(request)
  \/ GetResume
  \/ \E dataType \in InvalidatedTypes, cascade \in BOOLEAN : InvalidateByType(dataType, cascade)
  \/ \E league \in InvalidatedLeagues : InvalidateByLeague(league)
  \/ TickCM

(***************************************************************************)
(* CacheManager: the claims                                                *)
(***************************************************************************)
\* the longest TTL a type has in a tier
LongestTTL(dataType) == Max(getTTL(dataType), getL2TTL(dataType))

\* C17 (as stated): a get() issued strictly after t + TTL, TTL being the longest
\* TTL of the category, never returns the value a set() wrote at t.
C17_NoValueAfterTTL ==
  (cmEv.op = "get" /\ cmEv.value # NULL) =>
    cmEv.at <= setLog[cmEv.value].at + LongestTTL(cmEv.dataType)

\* C18 (as stated): a get() served by L1 leaves L2 alone; a get() served by L2
\* has written the value into L1 with the L1 TTL of the category, so that the
\* entry is served from L1 until then; a miss returns no value.
C18_TieredGet ==
  cmEv.op = "get" =>
    /\ cmEv.source = "l1" => l2Stats = cmEv.l2Before
    /\ (cmEv.source = "l2" /\ cmNow <= cmEv.done + getTTL(cmEv.dataType)) =>
         l1Cache[cmEv.key] = [value |-> cmEv.value,
                              expires |-> cmEv.done + getTTL(cmEv.dataType)]
    /\ cmEv.source = "miss" => cmEv.value = NULL

\* the elements of a list of types
RECURSIVE Range(_)
Range(types) == IF types = <<>> THEN {} ELSE {Head(types)} \cup Range(Tail(types))

\* C19 (as stated): invalidateByType(T, true) removes from both tiers exactly
\* the entries of T and of the types the cascade map lists directly under T.
C19_CascadeOneHopExactly ==
  (cmEv.op = "invalidateByType" /\ cmEv.cascade) =>
    LET removed == {cmEv.arg} \cup Range(cascadeMap[cmEv.arg])
    IN /\ \A key \in CMKeys :
            getTypeFromKey(key) \in removed
              => (l1Cache[key] = NoEntry /\ l2Cache[key] = NoEntry)
       /\ \A key \in cmEv.removedL1 \cup cmEv.removedL2 : getTypeFromKey(key) \in removed

\* C20 (as stated): after invalidateByLeague(L) no entry of a league-scoped
\* type whose parameters include league = L is left in L1 or in L2.
C20_LeagueEntriesGone ==
  cmEv.op = "invalidateByLeague" =>
    \A request \in CacheRequests :
      (request.dataType \in Range(leagueDataTypes) /\ LeagueOf(request.params) = cmEv.arg)
        => (l1Cache[KeyOf(request)] = NoEntry /\ l2Cache[KeyOf(request)] = NoEntry)

\* C21: set() returns true exactly when the write to L1 and the write to L2
\* both succeeded; a refusal of L1 makes it return false, and the write to L2
\* is made all the same: when it succeeds the row holds the value.
C21_SetTrueOnlyIfEveryTier ==
  cmEv.op = "set" =>
    /\ cmEv.ok <=> (cmEv.l1Success /\ cmEv.l2Success)
    /\ cmEv.l2Success =>
         l2Cache[cmEv.key] = [value |-> cmEv.value,
                              expires |-> cmEv.at + getL2TTL(cmEv.dataType)]

\* a set() that L1 refused and L2 took returned false
C21_Witness ==
  cmEv.op = "set" /\ ~cmEv.l1Success /\ cmEv.l2Success /\ ~cmEv.ok
    /\ l2Cache[cmEv.key].value = cmEv.value

\* C22 (as stated): set() reports failure only when every enabled tier failed.
C22_FailsOnlyIfEveryTierFailed ==
  (cmEv.op = "set" /\ ~cmEv.ok) => (~cmEv.l1Success /\ ~cmEv.l2Success)

\* C22 (amended): when one tier fails and the other succeeds, set() reports
\* failure, whichever of the two tiers it was that failed.
C22_OneTierFailedFails ==
  (cmEv.op = "set" /\ cmEv.l1Success # cmEv.l2Success) => ~cmEv.ok

\* a set() that L1 took and L2 failed returned false
C22_Witness ==
  cmEv.op = "set" /\ cmEv.l1Success /\ ~cmEv.l2Success /\ ~cmEv.ok
    /\ l1Cache[cmEv.key].value = cmEv.value

\* C29 (as stated): a get() that misses both tiers does not raise
\* metrics.errorRate and does not move getHealth() away from healthy.
C29_MissIsNoError ==
  (cmEv.op = "get" /\ cmEv.source = "miss" /\ cmEv.done = cmNow) =>
    /\ metrics.errorRate = cmEv.errorsBefore
    /\ cmEv.healthBefore = "healthy" => getHealth = "healthy"

(***************************************************************************)
(* RetryHandler on the request path of POE2ScoutClient                     *)
(***************************************************************************)
\* the largest `retries` a handler of the model is configured with
MaxRetries == 2

\* the HTTP statuses of the error responses of the model
Statuses == {404, 408, 409, 429, 500, 503}

\* `undefined`, as the data of a response without a body and as the
\* `response` of an axios error without a response; `field` is the value of
\* the property `status` of a body, 0 when the body has none
Undefined == [defined |-> FALSE, field |-> 0]

\* the bodies of the error responses: none, a JSON object without a property
\* `status`, and a JSON error object that repeats the status as `status`
Bodies(status) == {Undefined, [defined |-> TRUE, field |-> 0],
                   [defined |-> TRUE, field |-> status]}

\* the axios errors the request fails with: no response (a network failure),
\* or a response with a status and data
NetworkError == [hasResponse |-> FALSE, status |-> 0, data |-> Undefined]
AxiosErrors ==
  {NetworkError} \cup
  UNION {{[hasResponse |-> TRUE, status |-> status, data |-> body] :
             body \in Bodies(status)} : status \in Statuses}

NoError == [isError |-> FALSE, status |-> 0, response |-> Undefined,
            annotated |-> FALSE]

\* enhanceError(error) of the response interceptor: `status` is
\* error.response?.status, `response` is error.response?.data
enhanceError(error) ==
  [isError |-> TRUE,
   status |-> IF error.hasResponse THEN error.status ELSE 0,
   response |-> IF error.hasResponse THEN error.data ELSE Undefined,
   annotated |-> FALSE]

\* defaultRetryCondition(error): `!error.response` is a network error; else
\* the decision is made on error.response?.status
defaultRetryCondition(error) ==
  IF ~error.response.defined THEN TRUE
  ELSE LET status == error.response.field
       IN \/ status >= 500
          \/ status = 429
          \/ status = 408 \/ status = 409

\* a bug: the loop allows one attempt more
ExhaustedLate(n) == n > rhConfig.retries + 1

\* `if (attempt > this.config.retries) break`
Exhausted(n) == n > rhConfig.retries

\* a bug: every error is retried
ShouldThrowNever(error) == FALSE

\* `if (!this.config.retryCondition(error)) throw error`
ShouldThrow(error) == ~defaultRetryCondition(error)

NoRHEvent == [kind |-> "none", failure |-> NetworkError]

\* a handler constructed with the default retry condition
InitRH ==
  /\ rhConfig = [retries |-> MaxRetries]
  /\ rhPc = "idle"
  /\ attempt = 0
  /\ lastError = NoError
  /\ thrown = NoError
  /\ invocations = 0
  /\ sleeps = 0
  /\ lastFailure = NetworkError
  /\ allRetryable = TRUE
  /\ rhEv = NoRHEvent

\* updateConfig(newConfig), called while no execute() is in flight
UpdateConfigRH ==
  /\ rhPc = "idle"
  /\ \E n \in 0..MaxRetries : rhConfig' = [retries |-> n]
  /\ UNCHANGED <<rhPc, attempt, lastError, thrown, invocations, sleeps, lastFailure,
                 allRetryable, rhEv>>
  /\ RHFrame

\* execute(fn) up to the first `await fn()`; `0 <= retries`, so the loop is entered
ExecuteRH ==
  /\ rhPc = "idle"
  /\ rhPc' = "calling"
  /\ invocations' = invocations + 1
  /\ UNCHANGED <<rhConfig, attempt, lastError, thrown, sleeps, lastFailure,
                 allRetryable, rhEv>>
  /\ RHFrame

\* fn resolves: execute() returns its result
FnResolves ==
  /\ rhPc = "calling"
  /\ rhPc' = "returned"
  /\ rhEv' = NoRHEvent
  /\ UNCHANGED <<rhConfig, attempt, lastError, thrown, invocations, sleeps,
                 lastFailure, allRetryable>>
  /\ RHFrame

\* fn rejects with the enhanced error of an axios error: the catch block, up
\* to `await this.sleep(delay)` or to the throw
FnRejects(failure) ==
  /\ rhPc = "calling"
  /\ LET error == enhanceError(failure)
     IN /\ lastError' = error
        /\ attempt' = attempt + 1
        /\ lastFailure' = failure
        /\ allRetryable' = (allRetryable /\ defaultRetryCondition(error))
        /\ IF Exhausted(attempt + 1)
             THEN /\ rhPc' = "thrown"
                  /\ thrown' = [error EXCEPT !.annotated = TRUE]
                  /\ rhEv' = [kind |-> "exhausted", failure |-> failure]
                  /\ UNCHANGED sleeps
             ELSE IF ShouldThrow(error)
               THEN /\ rhPc' = "thrown"
                    /\ thrown' = error
                    /\ rhEv' = [kind |-> "throw", failure |-> failure]
                    /\ UNCHANGED sleeps
               ELSE /\ rhPc' = "sleeping"
                    /\ sleeps' = sleeps + 1
                    /\ rhEv' = [kind |-> "retry", failure |-> failure]
                    /\ UNCHANGED thrown
  /\ UNCHANGED <<rhConfig, invocations>>
  /\ RHFrame

\* the timer of sleep() fires: the loop test holds (attempt <= retries) and
\* fn is invoked again
SleepDone ==
  /\ rhPc = "sleeping"
  /\ rhPc' = "calling"
  /\ invocations' = invocations + 1
  /\ UNCHANGED <<rhConfig, attempt, lastError, thrown, sleeps, lastFailure,
                 allRetryable, rhEv>>
  /\ RHFrame

NextRH ==
  \/ UpdateConfigRH
  \/ ExecuteRH
  \/ FnResolves
  \/ \E failure \in AxiosErrors : FnRejects(failure)
  \/ SleepDone

(***************************************************************************)
(* RetryHandler: the claims                                                *)
(***************************************************************************)
\* C23: execute() invokes the operation at most retries + 1 times and
\* returns at the first success; when every attempt fails with a retryable
\* error it invokes it exactly retries + 1 times, sleeps exactly once between
\* two consecutive attempts and then rethrows the error of the last attempt.
C23_AtMostRetriesPlusOne ==
  /\ invocations <= rhConfig.retries + 1
  /\ rhPc = "returned" => invocations = attempt + 1
  /\ sleeps = IF rhPc = "sleeping" THEN invocations ELSE Max(0, invocations - 1)
  /\ (rhPc = "thrown" /\ allRetryable) =>
       /\ invocations = rhConfig.retries + 1
       /\ sleeps = rhConfig.retries
       /\ thrown = [enhanceError(lastFailure) EXCEPT !.annotated = TRUE]

\* every attempt failed with a retryable error, the last after two sleeps
C23_Witness ==
  /\ rhPc = "thrown" /\ allRetryable
  /\ rhConfig.retries = MaxRetries /\ invocations = MaxRetries + 1 /\ sleeps = MaxRetries

\* C24: after an attempt that fails with an error the retry condition
\* rejects, execute() neither sleeps nor invokes the operation again: it has
\* thrown that error, on whichever attempt it occurred.
C24_NonRetryablePropagates ==
  (attempt > 0 /\ ~defaultRetryCondition(lastError)) =>
    /\ rhPc = "thrown"
    /\ invocations = attempt
    /\ sleeps = attempt - 1
    /\ thrown.isError /\ thrown.status = lastError.status
                      /\ thrown.response = lastError.response

\* a non-retryable error on the second attempt, with attempts to spare
C24_Witness ==
  /\ rhPc = "thrown" /\ ~defaultRetryCondition(lastError)
  /\ attempt = 2 /\ rhConfig.retries = MaxRetries /\ ~thrown.annotated

\* the failures the request path is to retry: a network failure, or a
\* response whose status is 5xx, 429, 408 or 409
RetryableStatus(failure) ==
  \/ ~failure.hasResponse
  \/ failure.status >= 500
  \/ failure.status \in {429, 408, 409}

\* C25 (as stated): on the request path of POE2ScoutClient a failed attempt
\* with attempts to spare is retried exactly when it was a network failure or
\* its response status is 5xx, 429, 408 or 409, body or no body.
C25_RetriedByStatus ==
  rhEv.kind \in {"retry", "throw"} =>
    (rhEv.kind = "retry" <=> RetryableStatus(rhEv.failure))

(***************************************************************************)
(* KeyGenerator (src/src/utils/key_generation.ts)                          *)
(* A parameter mapping is an object: its keys with their values, in        *)
(* insertion order.  A value is a string, [str |-> s], null, [null |->     *)
(* TRUE], or an object of string values, [obj |-> entries], the entries    *)
(* in insertion order as well.  A text is a sequence of tokens.            *)
(***************************************************************************)
\* bound of the model: the number of parameters of a mapping
MaxParams == 3

\* the values a nested object holds under its keys "type" and "status"
NestedObjects ==
  { << <<"type", [str |-> "bow"]>>, <<"status", [str |-> "online"]>> >>,
    << <<"status", [str |-> "online"]>>, <<"type", [str |-> "bow"]>> >>,
    << <<"type", [str |-> "bow"]>> >>,
    << <<"type", [str |-> "staff"]>> >> }

\* the values of a parameter, by its name
ParamValues(key) ==
  CASE key = "category" -> {[str |-> "weapon"], [null |-> TRUE]}
    [] key = "league" -> {[str |-> "Standard"]}
    [] OTHER -> {[str |-> "q1"]} \cup {[obj |-> o] : o \in NestedObjects}

ParamNames == {"category", "league", "query"}

\* the keys of an object
KeysOf(entries) == {entries[k][1] : k \in 1..Len(entries)}

\* the parameter mappings generateKey is called with: no key twice
ParamMappings ==
  UNION {{p \in [1..n -> UNION {{<<key, v>> : v \in ParamValues(key)} : key \in ParamNames}] :
            \A j, k \in 1..n : p[j][1] = p[k][1] => j = k} : n \in 0..MaxParams}

\* the value an object holds under a key it has
ValueAt(entries, key) ==
  entries[CHOOSE k \in 1..Len(entries) : entries[k][1] = key][2]

\* what an object means: its keys, each with what its value means
Meaning(entries) ==
  [key \in KeysOf(entries) |->
     LET v == ValueAt(entries, key)
     IN IF "obj" \in DOMAIN v
          THEN [obj |-> [inner \in KeysOf(v.obj) |-> ValueAt(v.obj, inner)]]
          ELSE v]

\* JSON.stringify of an object of string values: the entries in insertion order
RECURSIVE StringifyEntries(_)
StringifyEntries(entries) ==
  IF entries = <<>> THEN <<>>
  ELSE <<"\"", Head(entries)[1], "\"", ":", "\"", Head(entries)[2].str, "\"">>
       \o (IF Len(entries) > 1 THEN <<",">> ELSE <<>>) \o StringifyEntries(Tail(entries))

\* JSON.stringify(value) of an object
Stringify(entries) == <<"{">> \o StringifyEntries(entries) \o <<"}">>

\* sortAndNormalizeParams: the normalisation of a value
NormalizeValue(value) ==
  IF "null" \in DOMAIN value THEN <<>>
  ELSE IF "obj" \in DOMAIN value THEN Stringify(value.obj)
  ELSE <<value.str>>

\* sortAndNormalizeParams: every value normalised
NormalizeValues(params) ==
  [k \in 1..Len(params) |-> <<params[k][1], NormalizeValue(params[k][2])>>]

\* KeyGenerator.generateKey(type, params) of a mapping with such values
KeyGeneratorKey(dataType, params) == generateCacheKey(dataType, NormalizeValues(params))

NoKGEvent == [dataType |-> "none", p1 |-> <<>>, p2 |-> <<>>, key1 |-> <<>>, key2 |-> <<>>]

InitKG == kgEv = NoKGEvent

\* generateKey(dataType, p1) and generateKey(dataType, p2); the function is
\* static and keeps no state, so a behaviour makes one pair of calls
GenerateKeys(dataType, p1, p2) ==
  /\ kgEv = NoKGEvent
  /\ kgEv' = [dataType |-> dataType, p1 |-> p1, p2 |-> p2,
              key1 |-> KeyGeneratorKey(dataType, p1),
              key2 |-> KeyGeneratorKey(dataType, p2)]
  /\ KGFrame

\* the categories generateKey is called with
KGDataTypes == {"unique_items", "search_results"}

NextKG ==
  \E dataType \in KGDataTypes, p1, p2 \in ParamMappings : GenerateKeys(dataType, p1, p2)

\* C32 (as stated): two mappings that mean the same and differ only in the
\* insertion order of their keys, at the top level or inside a nested object,
\* get the same key.
C32_KeyIgnoresInsertionOrder ==
  (kgEv.dataType # "none" /\ Meaning(kgEv.p1) = Meaning(kgEv.p2))
    => kgEv.key1 = kgEv.key2

\* two mappings that differ only in the insertion order of their top-level
\* keys, the values in the same order inside, get the same key
TopLevelOrderIgnored ==
  (/\ kgEv.dataType # "none"
   /\ KeysOf(kgEv.p1) = KeysOf(kgEv.p2)
   /\ \A key \in KeysOf(kgEv.p1) : ValueAt(kgEv.p1, key) = ValueAt(kgEv.p2, key))
    => kgEv.key1 = kgEv.key2

(***************************************************************************)
(* CompressionUtil (src/src/utils/compression.ts)                          *)
(* A value is a number, [num |-> its decimal text], NaN, [nan |-> TRUE],   *)
(* a string, null, undefined, [undef |-> TRUE], a Date, [date |-> its ISO  *)
(* text], or an object of such values.  gzip and gunzip are the library's: *)
(* gunzip gives back the text gzip was given; how long the output of gzip  *)
(* is, and whether gzip fails, is the environment's choice.                *)
(***************************************************************************)
\* the threshold the codec is constructed with, in bytes
DefaultThreshold == 1024

\* the values updateThreshold() may set
ThresholdUpdates == {16, DefaultThreshold}

\* the values without structure; "blob" stands for a string of 1100 characters
Primitives ==
  { [num |-> "1"], [nan |-> TRUE], [str |-> "a"], [str |-> "blob"], [null |-> TRUE],
    [undef |-> TRUE], [date |-> "2024-01-01T00:00:00.000Z"] }

FieldNames == {"a", "b"}

\* bound of the model: the number of fields of an object
MaxFields == 2

\* the values compress() is called with
Values ==
  Primitives \cup
  {[obj |-> o] :
     o \in UNION {{e \in [1..n -> FieldNames \X Primitives] :
                     \A j, k \in 1..n : e[j][1] = e[k][1] => j = k} : n \in 0..MaxFields}}

\* JSON.stringify of a value without structure inside an object; <<>>: the
\* field is left out
StringifyPrimitive(value) ==
  IF "num" \in DOMAIN value THEN <<value.num>>
  ELSE IF "str" \in DOMAIN value THEN <<"\"", value.str, "\"">>
  ELSE IF "date" \in DOMAIN value THEN <<"\"", value.date, "\"">>
  ELSE IF "undef" \in DOMAIN value THEN <<>>
  ELSE <<"null">>

\* the fields of an object JSON.stringify writes: those that are not undefined
Written(entries) ==
  LET Defined(e) == ~("undef" \in DOMAIN e[2])
  IN SelectSeq(entries, Defined)

RECURSIVE StringifyFields(_)
StringifyFields(entries) ==
  IF entries = <<>> THEN <<>>
  ELSE <<"\"", Head(entries)[1], "\"", ":">> \o StringifyPrimitive(Head(entries)[2])
       \o (IF Len(entries) > 1 THEN <<",">> ELSE <<>>) \o StringifyFields(Tail(entries))

\* JSON.stringify(data): a text, or [undef |-> TRUE] for undefined
JSONStringify(data) ==
  IF "undef" \in DOMAIN data THEN data
  ELSE IF "obj" \in DOMAIN data
    THEN <<"{">> \o StringifyFields(Written(data.obj)) \o <<"}">>
  ELSE StringifyPrimitive(data)

\* JSON.parse of the text of a value without structure
ParsePrimitive(text) ==
  IF text = <<"null">> THEN [null |-> TRUE]
  ELSE IF Head(text) = "\"" THEN [str |-> text[2]]
  ELSE [num |-> text[1]]

\* JSON.parse of the fields of an object, from the token after `{` or `,` on
RECURSIVE ParseFields(_)
ParseFields(text) ==
  IF Head(text) = "}" THEN <<>>
  ELSE LET key == text[2]
           width == IF text[5] = "\"" THEN 3 ELSE 1
           value == ParsePrimitive(SubSeq(text, 5, 4 + width))
           rest == SubSeq(text, 5 + width, Len(text))
       IN <<<<key, value>>>>
          \o ParseFields(IF Head(rest) = "," THEN Tail(rest) ELSE rest)

\* JSON.parse(text)
JSONParse(text) ==
  IF Head(text) = "{" THEN [obj |-> ParseFields(Tail(text))]
  ELSE ParsePrimitive(text)

\* the number of bytes of a token in UTF-8
TokenBytes(token) ==
  CASE token = "blob" -> 1100
    [] token = "null" -> 4
    [] token = "2024-01-01T00:00:00.000Z" -> 24
    [] OTHER -> 1

\* Buffer.byteLength(text, 'utf8')
RECURSIVE ByteLength(_)
ByteLength(text) == IF text = <<>> THEN 0 ELSE TokenBytes(Head(text)) + ByteLength(Tail(text))

\* what gzip does with a text: its output is half as long, its output is 20
\* bytes longer, or it fails
GzipOutcomes == {"shrinks", "grows", "fails"}

\* gzip(text): a Buffer
Gzip(text, outcome) ==
  [gzip |-> text,
   length |-> IF outcome = "shrinks" THEN ByteLength(text) \div 2 ELSE ByteLength(text) + 20]

\* compress(): the test that the value is stored as it is
BelowThreshold(dataSize, threshold) == dataSize < threshold

\* compress(data): [threw |-> TRUE] when it rejects, or what it resolves with
compress(data, outcome, threshold) ==
  LET jsonString == JSONStringify(data)
  IN IF "undef" \in DOMAIN data
       THEN [threw |-> TRUE]
     ELSE IF BelowThreshold(ByteLength(jsonString), threshold)
       THEN [data |-> jsonString, compressed |-> FALSE, dataSize |-> ByteLength(jsonString)]
     ELSE IF outcome # "fails"
             /\ 10 * Gzip(jsonString, outcome).length < 9 * ByteLength(jsonString)
       THEN [data |-> Gzip(jsonString, outcome), compressed |-> TRUE,
             dataSize |-> ByteLength(jsonString)]
     ELSE [data |-> jsonString, compressed |-> FALSE, dataSize |-> ByteLength(jsonString)]

\* decompress(data, isCompressed)
decompress(data, isCompressed) ==
  IF isCompressed THEN JSONParse(data.gzip) ELSE JSONParse(data)

NoCUEvent == [kind |-> "none"]

InitCU ==
  /\ compressionThreshold = DefaultThreshold
  /\ cuEv = NoCUEvent

\* updateThreshold(threshold)
UpdateThreshold(threshold) ==
  /\ compressionThreshold' = threshold
  /\ cuEv' = NoCUEvent
  /\ CUFrame

\* compress(data), and decompress() of what it resolved with: what L2Cache.set
\* stores in a row and L2Cache.get makes of the row
RoundTrip(data, outcome) ==
  /\ LET stored == compress(data, outcome, compressionThreshold)
     IN cuEv' = IF "threw" \in DOMAIN stored
                  THEN [kind |-> "threw", value |-> data]
                  ELSE [kind |-> "stored", value |-> data, stored |-> stored,
                        threshold |-> compressionThreshold,
                        out |-> decompress(stored.data, stored.compressed)]
  /\ UNCHANGED compressionThreshold
  /\ CUFrame

NextCU ==
  \/ \E threshold \in ThresholdUpdates : UpdateThreshold(threshold)
  \/ \E data \in Values, outcome \in GzipOutcomes : RoundTrip(data, outcome)

\* C33 (as stated): what decompress() makes of what compress() returned for a
\* value is that value, compressed or not, and a value whose serialized size
\* is below the threshold is not stored compressed.
C33_RoundTrip ==
  cuEv.kind = "stored" =>
    /\ cuEv.out = cuEv.value
    /\ cuEv.stored.dataSize < cuEv.threshold => ~cuEv.stored.compressed

\* a value whose serialized size is below the threshold is not stored compressed
BelowThresholdStoredAsIs ==
  cuEv.kind = "stored" =>
    (cuEv.stored.dataSize < cuEv.threshold => ~cuEv.stored.compressed)

\* the values JSON represents: no NaN, no Date, no undefined, at any depth
JSONValue(value) ==
  LET Plain(v) == DOMAIN v \in {{"num"}, {"str"}, {"null"}}
  IN IF "obj" \in DOMAIN value
       THEN \A k \in 1..Len(value.obj) : Plain(value.obj[k][2])
       ELSE Plain(value)

\* the round trip gives back every value JSON represents
JSONValueRoundTrip ==
  (cuEv.kind = "stored" /\ JSONValue(cuEv.value)) => cuEv.out = cuEv.value

(***************************************************************************)
(* TradeCache (src/src/utils/trade-cache.ts)                               *)
(* The Map is the sequence of its entries in insertion order, the order    *)
(* evictLRU() and cleanup() visit them in.  Not modelled: the cached data  *)
(* and the counters of stats, which decide nothing.                        *)
(***************************************************************************)
\* bounds of the trade cache's model
TCMaxTime == 3
MaxTCCalls == 5

\* the configuration the cache is constructed with (times in clock ticks)
tcConfig == [searchTTL |-> 2, fetchTTL |-> 1, maxSize |-> 2, cleanupInterval |-> 2]

\* the keys the cache is called with
TCKeys == {"search:a", "search:b", "fetch:c"}

\* key.startsWith('fetch:')
IsFetchKey(key) == key = "fetch:c"

\* set(): the TTL of an entry, no customTTL given
TTLOf(key) == IF IsFetchKey(key) THEN tcConfig.fetchTTL ELSE tcConfig.searchTTL

\* evictLRU(): entry.hits * 1000 / age as a JavaScript number: 0 / 0 is NaN,
\* a positive number over 0 is Infinity
Score(entry, t) ==
  LET age == t - entry.timestamp
  IN IF age = 0
       THEN [kind |-> IF entry.hits = 0 THEN "NaN" ELSE "Infinity", num |-> 0, den |-> 1]
       ELSE [kind |-> "finite", num |-> entry.hits * 1000, den |-> age]

\* the score lruScore starts with
Infinity == [kind |-> "Infinity", num |-> 0, den |-> 1]

\* a < b of two JavaScript numbers: false when one of them is NaN
Less(a, b) ==
  \/ a.kind = "finite" /\ b.kind = "Infinity"
  \/ a.kind = "finite" /\ b.kind = "finite" /\ a.num * b.den < b.num * a.den

\* the loop of evictLRU() over the entries left to visit: the key found ("":
\* null)
RECURSIVE LruKey(_, _, _, _)
LruKey(entries, lruKey, lruScore, t) ==
  IF entries = <<>> THEN lruKey
  ELSE LET score == Score(Head(entries), t)
       IN IF Less(score, lruScore)
            THEN LruKey(Tail(entries), Head(entries).key, score, t)
            ELSE LruKey(Tail(entries), lruKey, lruScore, t)

\* this.cache.delete(key)
Deleted(entries, key) ==
  LET Other(e) == e.key # key
  IN SelectSeq(entries, Other)

\* evictLRU() at time t
evictLRU(entries, t) ==
  LET lruKey == LruKey(entries, "", Infinity, t)
  IN IF lruKey # "" THEN Deleted(entries, lruKey) ELSE entries

\* this.cache.set(key, entry): an entry of the key is replaced where it is
MapSet(entries, entry) ==
  IF \E k \in 1..Len(entries) : entries[k].key = entry.key
    THEN [k \in 1..Len(entries) |-> IF entries[k].key = entry.key THEN entry ELSE entries[k]]
    ELSE Append(entries, entry)

\* now - entry.timestamp > entry.ttl
ExpiredTC(entry, t) == t - entry.timestamp > entry.ttl

InitTC ==
  /\ tcNow = 1
  /\ tcCache = <<>>
  /\ tcCleanupDue = 1 + tcConfig.cleanupInterval
  /\ tcCalls = 0

\* one more call is made on the trade cache
CalledTC ==
  /\ tcCalls < MaxTCCalls
  /\ tcCalls' = tcCalls + 1

\* set(key, value)
SetTC(key) ==
  /\ LET room == IF Len(tcCache) >= tcConfig.maxSize THEN evictLRU(tcCache, tcNow)
                 ELSE tcCache
     IN tcCache' = MapSet(room, [key |-> key, timestamp |-> tcNow, ttl |-> TTLOf(key),
                                 hits |-> 0])
  /\ UNCHANGED <<tcNow, tcCleanupDue>>
  /\ CalledTC
  /\ TCFrame

\* get(key)
GetTC(key) ==
  /\ tcCache' =
       IF \E k \in 1..Len(tcCache) : tcCache[k].key = key
         THEN LET k == CHOOSE k \in 1..Len(tcCache) : tcCache[k].key = key
              IN IF ExpiredTC(tcCache[k], tcNow)
                   THEN Deleted(tcCache, key)
                   ELSE [tcCache EXCEPT ![k].hits = @ + 1]
         ELSE tcCache
  /\ UNCHANGED <<tcNow, tcCleanupDue>>
  /\ CalledTC
  /\ TCFrame

\* delete(key)
DeleteTC(key) ==
  /\ tcCache' = Deleted(tcCache, key)
  /\ UNCHANGED <<tcNow, tcCleanupDue>>
  /\ CalledTC
  /\ TCFrame

\* the callback of the setInterval of startCleanupTimer(): cleanup()
CleanupTC ==
  /\ tcNow >= tcCleanupDue
  /\ tcCleanupDue' = tcNow + tcConfig.cleanupInterval
  /\ LET Fresh(e) == ~ExpiredTC(e, tcNow)
     IN tcCache' = SelectSeq(tcCache, Fresh)
  /\ UNCHANGED <<tcNow, tcCalls>>
  /\ TCFrame

\* a tick of the clock, once the timer due has fired
TickTC ==
  /\ tcNow < TCMaxTime
  /\ tcCleanupDue > tcNow
  /\ tcNow' = tcNow + 1
  /\ UNCHANGED <<tcCache, tcCleanupDue, tcCalls>>
  /\ TCFrame

NextTC ==
  \/ \E key \in TCKeys : SetTC(key)
  \/ \E key \in TCKeys : GetTC(key)
  \/ \E key \in TCKeys : DeleteTC(key)
  \/ CleanupTC
  \/ TickTC

\* C34 (as stated): the cache holds at most maxSize entries.
C34_AtMostMaxSize == Len(tcCache) <= tcConfig.maxSize

Init ==
  /\ InitCB /\ InitRL /\ InitWRL /\ InitBM /\ InitPQ /\ InitBS /\ InitCM /\ InitRH
  /\ InitKG /\ InitCU /\ InitTC

SpecCB == Init /\ [][NextCB]_vars

\* a breaker constructed with SlowCallConfig
InitSlowCall ==
  /\ InitRL /\ InitWRL /\ InitBM /\ InitPQ /\ InitBS /\ InitCM /\ InitRH
  /\ InitKG /\ InitCU /\ InitTC
  /\ now = 1 /\ state = "closed" /\ failureCount = 0 /\ successCount = 0
  /\ totalRequests = 0 /\ lastFailureTime = NULL /\ nextAttemptTime = NULL
  /\ config = SlowCallConfig
  /\ calls = [c \in Callers |-> IdleCall]
  /\ ev = NoEvent /\ run = 0 /\ decayed = FALSE /\ abandoned = 0

\* such a breaker, on which execute() is called
SpecCBSlowCall == InitSlowCall /\ [][NextCBCalls]_vars

SpecRL == Init /\ [][NextRL]_vars

SpecWRL == Init /\ [][NextWRL]_vars

SpecBM == Init /\ [][NextBM]_vars

SpecPQ == Init /\ [][NextPQ]_vars

\* a manager on which executeBatch() and abortAll() are called
SpecBMAbort == Init /\ [][NextBMAbort]_vars

\* a queue on which clear(), remove() and retry() are not called
SpecPQQueueing == Init /\ [][NextPQQueueing]_vars

SpecBS == Init /\ [][NextBS]_vars

SpecCM == Init /\ [][NextCM]_vars

SpecRH == Init /\ [][NextRH]_vars

SpecKG == Init /\ [][NextKG]_vars

SpecCU == Init /\ [][NextCU]_vars

SpecTC == Init /\ [][NextTC]_vars

\* the runtime runs every continuation that is due, every timer fires, and an
\* executor call settles or its timeout fires
SpecBMFair == SpecBM /\ \A i \in Items : WF_vars(ItemStep(i))

\* the same, for a manager on which only executeBatch() is called
SpecBMBatchFair ==
  Init /\ [][NextBMBatch]_vars /\ \A i \in Items : WF_vars(ItemStep(i))

====
